---- MODULE Spec2Model ----
(***************************************************************************)
(* Onboarding oracle: the per-VIN lifecycle kept in the vins table, the    *)
(* POST submit handlers and their gates, the River job queue with the      *)
(* verify / onboard / disconnect / delete workers, the wallet-index        *)
(* sequence, the vendor operations stream and the register endpoint.       *)
(*                                                                         *)
(* A nullable column (null.Int64, null.String) is a set with at most one   *)
(* element: {} is NULL, {x} is the valid value x.                          *)
(***************************************************************************)
EXTENDS Integers, Sequences, FiniteSets, TLC

(***************************************************************************)
(* Bounds of the model.                                                    *)
(***************************************************************************)
\* slots of the queue: a job of every VIN of the longest request
MaxJobs == 3
\* job rows that are available or running when a request of a single VIN may
\* still arrive
MaxQueued == 2
\* HTTP submit requests in flight at the same time
MaxReqs == 1
\* values the wallet-index sequence may hand out
MaxSeq == 3
\* vehicle (and synthetic device) tokens the chain may mint
MaxTok == 2
\* times one job row may be picked up
MaxRuns == 2

\* the messages of the operations stream a run delivers, where the stream is
\* not the subject
MaxMessages == 2

Vins == {"1FTFW1ET5DFA12345", "ABCDEFG1234567811"}
\* vendor-assigned identifiers: free-form strings of the operations stream
ExtIds == {"op-1"} \cup Vins
Kinds == {"verify", "onboard", "disconnect", "delete"}
TxKinds == {"onboard", "disconnect", "delete"}

(***************************************************************************)
(* internal/onboarding/status.go                                           *)
(***************************************************************************)
OnboardingStatusSubmitUnknown == 0
OnboardingStatusSubmitPending == 1
OnboardingStatusSubmitFailure == 2
OnboardingStatusSubmitSuccess == 3
OnboardingStatusDecodingUnknown == 10
OnboardingStatusDecodingPending == 11
OnboardingStatusDecodingFailure == 12
OnboardingStatusDecodingSuccess == 13
OnboardingStatusVendorValidationUnknown == 20
OnboardingStatusVendorValidationPending == 21
OnboardingStatusVendorValidationFailure == 22
OnboardingStatusVendorValidationSuccess == 23
OnboardingStatusMintSubmitUnknown == 30
OnboardingStatusMintSubmitPending == 31
OnboardingStatusMintSubmitFailure == 32
OnboardingStatusMintSubmitSuccess == 33
OnboardingStatusConnectUnknown == 40
OnboardingStatusConnectPending == 41
OnboardingStatusConnectFailure == 42
OnboardingStatusConnectSuccess == 43
OnboardingStatusMintUnknown == 50
OnboardingStatusMintPending == 51
OnboardingStatusMintFailure == 52
OnboardingStatusMintSuccess == 53
OnboardingStatusDisconnectSubmitUnknown == 60
OnboardingStatusDisconnectSubmitPending == 61
OnboardingStatusDisconnectSubmitFailure == 62
OnboardingStatusDisconnectSubmitSuccess == 63
OnboardingStatusDisconnectUnknown == 70
OnboardingStatusDisconnectPending == 71
OnboardingStatusDisconnectFailure == 72
OnboardingStatusDisconnectSuccess == 73
OnboardingStatusBurnSDUnknown == 80
OnboardingStatusBurnSDPending == 81
OnboardingStatusBurnSDFailure == 82
OnboardingStatusBurnSDSuccess == 83
OnboardingStatusDeleteSubmitUnknown == 90
OnboardingStatusDeleteSubmitPending == 91
OnboardingStatusDeleteSubmitFailure == 92
OnboardingStatusDeleteSubmitSuccess == 93
OnboardingStatusBurnVehicleUnknown == 100
OnboardingStatusBurnVehiclePending == 101
OnboardingStatusBurnVehicleFailure == 102
OnboardingStatusBurnVehicleSuccess == 103

IsVerified(status) == status >= OnboardingStatusVendorValidationSuccess

IsMinted(status) == status = OnboardingStatusMintSuccess

IsDisconnected(status) == status = OnboardingStatusBurnSDSuccess

IsFailure(status) == status % 10 = 2

IsPending(status) == status > 0 /\ status < OnboardingStatusMintSuccess

IsMintPending(status) ==
    status > OnboardingStatusMintSubmitUnknown /\ status < OnboardingStatusMintSuccess

IsDisconnectPending(status) ==
    /\ status > OnboardingStatusDisconnectSubmitUnknown
    /\ status < OnboardingStatusBurnSDSuccess
    /\ ~IsFailure(status)

IsDisconnectFailed(status) ==
    \/ status = OnboardingStatusDisconnectSubmitFailure
    \/ status = OnboardingStatusBurnSDFailure
    \/ status = OnboardingStatusDisconnectFailure

IsBurnPending(status) ==
    status > OnboardingStatusDeleteSubmitUnknown /\ status < OnboardingStatusBurnVehicleSuccess

\* every status code status.go defines
StatusCodes == {10 * stage + step : stage \in 0..10, step \in 0..3}

statusToString ==
    (OnboardingStatusSubmitUnknown :> "VerificationSubmitUnknown") @@
    (OnboardingStatusSubmitPending :> "VerificationSubmitPending") @@
    (OnboardingStatusSubmitFailure :> "VerificationSubmitFailure") @@
    (OnboardingStatusSubmitSuccess :> "VerificationSubmitSuccess") @@
    (OnboardingStatusDecodingUnknown :> "DecodingUnknown") @@
    (OnboardingStatusDecodingPending :> "DecodingPending") @@
    (OnboardingStatusDecodingFailure :> "DecodingFailure") @@
    (OnboardingStatusDecodingSuccess :> "DecodingSuccess") @@
    (OnboardingStatusVendorValidationUnknown :> "VendorValidationUnknown") @@
    (OnboardingStatusVendorValidationPending :> "VendorValidationPending") @@
    (OnboardingStatusVendorValidationFailure :> "VendorValidationFailure") @@
    (OnboardingStatusVendorValidationSuccess :> "VendorValidationSuccess") @@
    (OnboardingStatusMintSubmitUnknown :> "MintSubmitUnknown") @@
    (OnboardingStatusMintSubmitPending :> "MintSubmitPending") @@
    (OnboardingStatusMintSubmitFailure :> "MintSubmitFailure") @@
    (OnboardingStatusMintSubmitSuccess :> "MintSubmitSuccess") @@
    (OnboardingStatusConnectUnknown :> "ConnectUnknown") @@
    (OnboardingStatusConnectPending :> "ConnectPending") @@
    (OnboardingStatusConnectFailure :> "ConnectFailure") @@
    (OnboardingStatusConnectSuccess :> "ConnectSuccess") @@
    (OnboardingStatusMintUnknown :> "MintUnknown") @@
    (OnboardingStatusMintPending :> "MintPending") @@
    (OnboardingStatusMintFailure :> "MintFailure") @@
    (OnboardingStatusMintSuccess :> "MintSuccess") @@
    (OnboardingStatusDisconnectSubmitUnknown :> "DisconnectSubmitUnknown") @@
    (OnboardingStatusDisconnectSubmitPending :> "DisconnectSubmitPending") @@
    (OnboardingStatusDisconnectSubmitFailure :> "DisconnectSubmitFailure") @@
    (OnboardingStatusDisconnectSubmitSuccess :> "DisconnectSubmitSuccess") @@
    (OnboardingStatusDisconnectUnknown :> "DisconnectUnknown") @@
    (OnboardingStatusDisconnectPending :> "DisconnectPending") @@
    (OnboardingStatusDisconnectFailure :> "DisconnectFailure") @@
    (OnboardingStatusDisconnectSuccess :> "DisconnectSuccess") @@
    (OnboardingStatusBurnSDUnknown :> "BurnSDUnknown") @@
    (OnboardingStatusBurnSDPending :> "BurnSDPending") @@
    (OnboardingStatusBurnSDFailure :> "BurnSDFailure") @@
    (OnboardingStatusBurnSDSuccess :> "BurnSDSuccess") @@
    (OnboardingStatusDeleteSubmitUnknown :> "DeleteSubmitUnknown") @@
    (OnboardingStatusDeleteSubmitPending :> "DeleteSubmitPending") @@
    (OnboardingStatusDeleteSubmitFailure :> "DeleteSubmitFailure") @@
    (OnboardingStatusDeleteSubmitSuccess :> "DeleteSubmitSuccess") @@
    (OnboardingStatusBurnVehicleUnknown :> "BurnVehicleUnknown") @@
    (OnboardingStatusBurnVehiclePending :> "BurnVehiclePending") @@
    (OnboardingStatusBurnVehicleFailure :> "BurnVehicleFailure") @@
    (OnboardingStatusBurnVehicleSuccess :> "BurnVehicleSuccess")

GetDetailedStatus(status) ==
    IF status \in DOMAIN statusToString THEN statusToString[status] ELSE "Unknown"

\* a faulty variant of GetVerificationStatus: pending is looked at before failure
GetVerificationStatusPendingFirst(status) ==
    IF IsVerified(status) THEN "Success"
    ELSE IF IsPending(status) THEN "Pending"
    ELSE IF IsFailure(status) THEN "Failure"
    ELSE "Unknown"

GetVerificationStatus(status) ==
    IF IsVerified(status) THEN "Success"
    ELSE IF IsFailure(status) THEN "Failure"
    ELSE IF IsPending(status) THEN "Pending"
    ELSE "Unknown"

GetMintStatus(status) ==
    IF status = OnboardingStatusMintSuccess THEN "Success"
    ELSE IF IsFailure(status) THEN "Failure"
    ELSE IF IsPending(status) THEN "Pending"
    ELSE "Unknown"

GetDisconnectStatus(status) ==
    IF status = OnboardingStatusBurnSDSuccess THEN "Success"
    ELSE IF IsFailure(status) THEN "Failure"
    ELSE IF IsDisconnectPending(status) THEN "Pending"
    ELSE "Unknown"

GetBurnStatus(status) ==
    IF status = OnboardingStatusBurnVehicleSuccess THEN "Success"
    ELSE IF IsFailure(status) THEN "Failure"
    ELSE IF IsBurnPending(status) THEN "Pending"
    ELSE "Unknown"

(***************************************************************************)
(* Nullable values and the vins row (dbmodels.Vin).                        *)
(***************************************************************************)
Valid(n) == n # {}

Val(n) == CHOOSE x \in n : TRUE

\* null.String.String: the empty string when the column is NULL
StringOf(n) == IF n = {} THEN "" ELSE Val(n)

\* a dbmodels.Vin with only the status set, as the handlers and the verify worker build it
NewVin(status) ==
    [status |-> status, vtid |-> {}, stid |-> {}, widx |-> {}, ddid |-> {},
     conn |-> {}, disc |-> {}, ext |-> {}, operr |-> {}]

AllColumns == {"status", "vtid", "stid", "widx", "ddid", "conn", "disc", "ext", "operr"}

\* the row with the whitelisted columns taken from rec, the other ones kept
Merge(row, rec, cols) ==
    [status |-> IF "status" \in cols THEN rec.status ELSE row.status,
     vtid   |-> IF "vtid" \in cols THEN rec.vtid ELSE row.vtid,
     stid   |-> IF "stid" \in cols THEN rec.stid ELSE row.stid,
     widx   |-> IF "widx" \in cols THEN rec.widx ELSE row.widx,
     ddid   |-> IF "ddid" \in cols THEN rec.ddid ELSE row.ddid,
     conn   |-> IF "conn" \in cols THEN rec.conn ELSE row.conn,
     disc   |-> IF "disc" \in cols THEN rec.disc ELSE row.disc,
     ext    |-> IF "ext" \in cols THEN rec.ext ELSE row.ext,
     operr  |-> IF "operr" \in cols THEN rec.operr ELSE row.operr]

\* unique_vehicle_token_id and unique_synthetic_token_id: NULLs never collide
UniqueTokenIds(tbl, vin, row) ==
    \A u \in DOMAIN tbl \ {vin} :
        /\ Valid(row.vtid) => tbl[u].vtid # row.vtid
        /\ Valid(row.stid) => tbl[u].stid # row.stid

\* the table with the row of vin replaced (or inserted)
Put(tbl, vin, row) ==
    [u \in DOMAIN tbl \cup {vin} |-> IF u = vin THEN row ELSE tbl[u]]

\* record.Update(columns): the statement fails, and changes nothing, when it
\* would break a unique constraint
UpdateVin(tbl, vin, rec, cols) ==
    LET row == Merge(tbl[vin], rec, cols)
    IN IF vin \in DOMAIN tbl /\ UniqueTokenIds(tbl, vin, row)
       THEN Put(tbl, vin, row)
       ELSE tbl

\* a faulty variant of InsertOrUpdateVin, for a table without the two unique
\* constraints
InsertOrUpdateVinUnchecked(tbl, vin, rec) == Put(tbl, vin, rec)

\* Vehicle.InsertOrUpdateVin: INSERT .. ON CONFLICT (vin) DO UPDATE of every column
InsertOrUpdateVin(tbl, vin, rec) ==
    IF UniqueTokenIds(tbl, vin, rec) THEN Put(tbl, vin, rec) ELSE tbl

(***************************************************************************)
(* State.                                                                  *)
(***************************************************************************)
VARIABLES
    vins,       \* the vins table: VIN -> row, for the VINs that have a row
    jobs,       \* the river_job rows that are available or running, by slot
    reqs,       \* the POST submit requests in flight, by slot
    seq,        \* last value handed out by sd_wallet_index_seq
    allocated,  \* every index GetNextSDWalletIndex returned, in order
    chain,      \* the registry: live vehicle tokens, live SD tokens, mint counters
    m,          \* the sync.RWMutex of each worker struct: TRUE when locked
    settings,   \* config.Settings, fixed at start-up
    faults,     \* whether the services the oracle calls may fail in this run
    resp,       \* the last whole request and its response: code and entries
    cache,      \* OracleService.cache: VIN -> the row loaded for it, until it expires
    consumer,   \* the telemetry partition: next offset, marked offset, failed offsets
    enrollmentChannel, \* the number of messages the enrollment channel of main holds
    opsConsumer, \* the operations consumer: the message it is updating the store for
    key         \* SDWalletsService.key: the extended key the service derives from

vars == <<vins, jobs, reqs, seq, allocated, chain, m, settings, faults, resp, cache, consumer, enrollmentChannel, opsConsumer, key>>

\* settings.SDWalletsSeed: the seeds a deployment may be configured with
SDWalletsSeeds == {"seed-a", "seed-b"}

\* hdkeychain.NewMaster: the master key of a seed, the root of its derivations
NewMaster(seed) == [seed |-> seed, path |-> <<>>]

Settings ==
    [EnableVendorCapabilityCheck : BOOLEAN, EnableVendorConnection : BOOLEAN,
     EnableVendorTestMode : BOOLEAN]

\* a free slot of the queue.  Of a running job: rec is the worker's
\* dbmodels.Vin, op the user operation of its args, idx the wallet index it
\* took, err whether the stage it is in returns an error, done whether the
\* context river gave Work is done (cancelled, or past the worker's Timeout)
NoJob ==
    [kind |-> "none", vin |-> "", pc |-> "free", attempt |-> 0,
     rec |-> NewVin(0), op |-> {}, idx |-> {}, err |-> FALSE, done |-> FALSE]

\* the operations consumer between two messages
NoOperation ==
    [pc |-> "idle",
     msg |-> [Action |-> "", Status |-> "", ID |-> "", VIN |-> "", VehicleID |-> "",
              Error |-> ""],
     rec |-> NewVin(0)]

\* the migration creates sd_wallet_index_seq and calls setval(seq, max(wallet_index) + 1),
\* which marks the value as handed out: on an empty table the last value is 1
FirstSeq == 1

\* no whole-request handler has answered yet
\* the telemetry consumer before its first message
NoConsumer == [next |-> 0, marked |-> 0, failed |-> {}]

NoResp == [method |-> "", kind |-> "", list |-> <<>>, code |-> 0, statuses |-> <<>>]

NoReq ==
    [kind |-> "none", vin |-> "", pc |-> "idle", rec |-> NewVin(0),
     admitted |-> FALSE, enq |-> FALSE, token |-> 0,
     list |-> <<>>, dbVins |-> <<>>, i |-> 0, statuses |-> <<>>]

Init ==
    /\ vins = [u \in {} |-> NewVin(0)]
    /\ jobs = [s \in 1..MaxJobs |-> NoJob]
    /\ reqs = [r \in 1..MaxReqs |-> NoReq]
    /\ seq = FirstSeq
    /\ allocated = <<>>
    /\ chain = [veh |-> {}, sd |-> {}, nveh |-> 0, nsd |-> 0]
    /\ m = [k \in TxKinds |-> FALSE]
    /\ settings \in Settings
    /\ faults \in BOOLEAN
    /\ resp = NoResp
    /\ cache = [u \in {} |-> NewVin(0)]
    /\ consumer = NoConsumer
    /\ enrollmentChannel = 0
    /\ opsConsumer = NoOperation
    /\ key = NewMaster("seed-a")

(***************************************************************************)
(* The job queue (River).                                                  *)
(***************************************************************************)
\* river's default when InsertOpts and Config leave MaxAttempts unset
MaxAttemptsDefault == 25

\* InsertOpts().MaxAttempts of each job kind; VerifyArgs.InsertOpts sets none
MaxAttempts(kind) == IF kind = "verify" THEN MaxAttemptsDefault ELSE 1

FreeSlotsOf(queue) == {s \in DOMAIN queue : queue[s].kind = "none"}

FreeSlots == FreeSlotsOf(jobs)

\* riverClient.Insert: a new row in state available
InsertInto(queue, kind, vin, op) ==
    LET s == CHOOSE x \in FreeSlotsOf(queue) : \A y \in FreeSlotsOf(queue) : x <= y
    IN [queue EXCEPT ![s] = [kind |-> kind, vin |-> vin, pc |-> "available",
                             attempt |-> 0, rec |-> NewVin(0), op |-> op, idx |-> {},
                             err |-> FALSE, done |-> FALSE]]

Insert(kind, vin, op) == InsertInto(jobs, kind, vin, op)

\* the jobs of a VIN that are queued or executing
LiveJobs(vin) == {s \in 1..MaxJobs : jobs[s].kind # "none" /\ jobs[s].vin = vin}

(***************************************************************************)
(* Gates of the POST submit handlers (controllers).                        *)
(***************************************************************************)
\* a faulty variant of canSubmitVerificationJob: a failed VIN is not admitted again
canSubmitVerificationJobOnce(record) ==
    LET verified == IsVerified(record.status)
        pending == IsPending(record.status)
    IN ~verified /\ ~pending

canSubmitVerificationJob(record) ==
    LET verified == IsVerified(record.status)
        failed == IsFailure(record.status)
        pending == IsPending(record.status)
    IN ~verified /\ (failed \/ ~pending)

\* a faulty variant of canSubmitMintingJob: a minted VIN is never admitted again
canSubmitMintingJobOnce(record) ==
    LET minted == IsMinted(record.status)
        burned == IsDisconnected(record.status)
        failed == IsFailure(record.status)
        pending == IsMintPending(record.status) \/ IsDisconnectPending(record.status)
    IN (~minted \/ burned) /\ (failed \/ ~pending)

canSubmitMintingJob(record) ==
    LET minted == IsMinted(record.status)
        burned == IsDisconnected(record.status)
        failed == IsFailure(record.status)
        failedConnection == StringOf(record.conn) = "failed"
        pending == IsMintPending(record.status) \/ IsDisconnectPending(record.status)
    IN (minted /\ failedConnection) \/ ((~minted \/ burned) /\ (failed \/ ~pending))

canSubmitDisconnectJob(record) ==
    LET minted == IsMinted(record.status)
        failed == IsDisconnectFailed(record.status)
        pending == IsDisconnectPending(record.status)
    IN (minted \/ failed) /\ ~pending

canSubmitDeleteJob(record) ==
    LET disconnected == IsDisconnected(record.status)
        failed == IsFailure(record.status)
        pending == IsBurnPending(record.status)
    IN (disconnected \/ failed) /\ ~pending

Gate(kind, record) ==
    CASE kind = "verify" -> canSubmitVerificationJob(record)
      [] kind = "onboard" -> canSubmitMintingJob(record)
      [] kind = "disconnect" -> canSubmitDisconnectJob(record)
      [] kind = "delete" -> canSubmitDeleteJob(record)

\* the status a handler gives the dbmodels.Vin it builds for a VIN without a row
SubmitUnknown(kind) ==
    CASE kind = "verify" -> OnboardingStatusSubmitUnknown
      [] kind = "onboard" -> OnboardingStatusMintSubmitUnknown
      [] kind = "disconnect" -> OnboardingStatusDisconnectSubmitUnknown
      [] kind = "delete" -> OnboardingStatusDeleteSubmitUnknown

SubmitPending(kind) ==
    CASE kind = "verify" -> OnboardingStatusSubmitPending
      [] kind = "onboard" -> OnboardingStatusMintSubmitPending
      [] kind = "disconnect" -> OnboardingStatusDisconnectSubmitPending
      [] kind = "delete" -> OnboardingStatusDeleteSubmitPending

SubmitFailure(kind) ==
    CASE kind = "verify" -> OnboardingStatusSubmitFailure
      [] kind = "onboard" -> OnboardingStatusMintSubmitFailure
      [] kind = "disconnect" -> OnboardingStatusDisconnectSubmitFailure
      [] kind = "delete" -> OnboardingStatusDeleteSubmitFailure

\* the userOperation of a request entry, copied into the job's args as it is:
\* a signed burn of an SD token (disconnect) or of a vehicle token (delete),
\* written {token}; the two other requests carry none
UserOperation(kind) ==
    IF kind \in {"disconnect", "delete"} THEN {{token} : token \in 1..MaxTok} ELSE {{}}

(***************************************************************************)
(* POST submit handlers, for a request naming one VIN.  A handler loads    *)
(* the row, asks the gate, inserts the job, and upserts the loaded row.    *)
(***************************************************************************)
\* the dbVin of a handler: the row GetVehiclesByVins loaded, or a new
\* dbmodels.Vin at the handler's SubmitUnknown status
LoadedVin(kind, vin) ==
    IF vin \in DOMAIN vins THEN vins[vin] ELSE NewVin(SubmitUnknown(kind))

\* GetVehiclesByVins, the gate and riverClient.Insert.  enq: the gate admitted
\* the VIN and Insert returned no error; Insert fails only when the services
\* may fail.  The queue of the model has MaxJobs slots, and every
\* specification takes a request only while one of them is free.
SubmitLoad(r, kind, vin) ==
    LET dbVin == LoadedVin(kind, vin)
        admitted == Gate(kind, dbVin)
    IN /\ reqs[r].pc = "idle"
       /\ \E enq \in BOOLEAN, op \in UserOperation(kind) :
            /\ enq => admitted /\ FreeSlots # {}
            /\ ~faults /\ admitted => enq
            /\ jobs' = IF enq THEN Insert(kind, vin, op) ELSE jobs
            /\ reqs' = [reqs EXCEPT ![r] = [NoReq EXCEPT !.kind = kind, !.vin = vin,
                                                         !.pc = "upsert", !.rec = dbVin,
                                                         !.admitted = admitted,
                                                         !.enq = enq]]
       /\ UNCHANGED <<vins, seq, allocated, chain, m, settings, faults, resp, cache, consumer, enrollmentChannel, opsConsumer, key>>

\* the HTTP status of a submit handler whose upsert of q.rec gave tbl
SubmitCode(q, tbl) == IF q.vin \in DOMAIN tbl /\ tbl[q.vin] = q.rec THEN 200 ELSE 500

\* InsertOrUpdateVin(dbVin) and the response
SubmitStore(r, kind, vin) ==
    LET q == reqs[r]
    IN /\ q.pc = "upsert"
       /\ q.kind = kind
       /\ q.vin = vin
       /\ vins' = InsertOrUpdateVin(vins, q.vin, q.rec)
       /\ reqs' = [reqs EXCEPT ![r] = NoReq]
       /\ UNCHANGED <<jobs, seq, allocated, chain, m, settings, faults, resp, cache, consumer, enrollmentChannel, opsConsumer, key>>

SubmitVerificationForVins(vin) ==
    \E r \in 1..MaxReqs :
        \/ SubmitLoad(r, "verify", vin)
        \/ SubmitStore(r, "verify", vin)

SubmitMintDataForVins(vin) ==
    \E r \in 1..MaxReqs :
        \/ SubmitLoad(r, "onboard", vin)
        \/ SubmitStore(r, "onboard", vin)

SubmitDisconnectDataForVins(vin) ==
    \E r \in 1..MaxReqs :
        \/ SubmitLoad(r, "disconnect", vin)
        \/ SubmitStore(r, "disconnect", vin)

SubmitDeleteDataForVins(vin) ==
    \E r \in 1..MaxReqs :
        \/ SubmitLoad(r, "delete", vin)
        \/ SubmitStore(r, "delete", vin)

(***************************************************************************)
(* Workers.  A job row keeps the worker's position (pc) and its in-memory  *)
(* dbmodels.Vin (rec).  Every step ends at a database write of the stage.  *)
(***************************************************************************)
\* the job row after Work returned: river runs it again while attempts are left
Finish(job, failed) ==
    IF failed /\ job.attempt < MaxAttempts(job.kind) /\ job.attempt < MaxRuns
    THEN [job EXCEPT !.pc = "available", !.rec = NewVin(0), !.idx = {}, !.err = FALSE,
                     !.done = FALSE]
    ELSE NoJob

\* river fetches an available row: attempt + 1
Running(job, pc, record) == [job EXCEPT !.pc = pc, !.attempt = @ + 1, !.rec = record]

(***************************************************************************)
(* internal/onboarding/verify.go                                           *)
(***************************************************************************)
\* statuses the vendor's Validate may report
CapabilityStatuses == {"capable", "notCapable", "noDataFound"}

\* VerifyWorker.Work up to DecodeVinAndUpdate.  GetOrCreateVinRecord reads the
\* row on the reader and, when there is none, inserts one on the writer: a
\* second statement, which fails when the row was created in between
VerifyWork(s) ==
    LET job == jobs[s]
        found == job.vin \in DOMAIN vins
    IN \/ /\ job.kind = "verify" /\ job.pc = "available"
          /\ \E selected \in BOOLEAN :
               /\ ~faults => selected
               /\ jobs' = [jobs EXCEPT ![s] =
                     IF ~selected THEN Finish(Running(job, "free", NewVin(0)), TRUE)
                     ELSE IF ~found
                     THEN Running(job, "insert", NewVin(OnboardingStatusDecodingUnknown))
                     ELSE IF vins[job.vin].status = OnboardingStatusVendorValidationSuccess
                     THEN Finish(Running(job, "free", vins[job.vin]), FALSE)
                     ELSE Running(job, "decode", vins[job.vin])]
          /\ UNCHANGED <<vins, reqs, seq, allocated, chain, m, settings, faults, resp, cache, consumer, enrollmentChannel, opsConsumer, key>>
       \/ /\ job.kind = "verify" /\ job.pc = "insert"
          /\ vins' = IF found THEN vins ELSE Put(vins, job.vin, job.rec)
          /\ jobs' = [jobs EXCEPT ![s] = IF found THEN Finish(job, TRUE)
                                         ELSE [job EXCEPT !.pc = "decode"]]
          /\ UNCHANGED <<reqs, seq, allocated, chain, m, settings, faults, resp, cache, consumer, enrollmentChannel, opsConsumer, key>>

\* DecodeVinAndUpdate: the DecodingPending write, or the already-decoded branch
DecodeVinAndUpdate(s) ==
    LET job == jobs[s]
        decode == job.rec.status < OnboardingStatusDecodingSuccess
                    \/ ~Valid(job.rec.ddid) \/ StringOf(job.rec.ddid) = ""
        record == [job.rec EXCEPT !.status = IF decode THEN OnboardingStatusDecodingPending
                                                       ELSE OnboardingStatusDecodingSuccess]
    IN /\ job.kind = "verify" /\ job.pc = "decode"
       /\ vins' = UpdateVin(vins, job.vin, record, AllColumns)
       /\ jobs' = [jobs EXCEPT ![s] = [job EXCEPT !.rec = record,
                                       !.pc = IF decode THEN "decoding" ELSE "validate"]]
       /\ UNCHANGED <<reqs, seq, allocated, chain, m, settings, faults, resp, cache, consumer, enrollmentChannel, opsConsumer, key>>

\* DecodeVinAndUpdate: dd.DecodeVin, getOrWaitForDeviceDefinition, the deferred update
DecodeVinResult(s) ==
    LET job == jobs[s]
    IN /\ job.kind = "verify" /\ job.pc = "decoding"
       /\ \E decoded \in BOOLEAN :
            LET record == IF decoded
                          THEN [job.rec EXCEPT !.ddid = {"dd-1"},
                                               !.status = OnboardingStatusDecodingSuccess]
                          ELSE [job.rec EXCEPT !.status = OnboardingStatusDecodingFailure]
            IN /\ ~faults => decoded
               /\ vins' = UpdateVin(vins, job.vin, record, AllColumns)
               /\ jobs' = [jobs EXCEPT ![s] =
                             IF decoded THEN [job EXCEPT !.rec = record, !.pc = "validate"]
                             ELSE Finish(job, TRUE)]
       /\ UNCHANGED <<reqs, seq, allocated, chain, m, settings, faults, resp, cache, consumer, enrollmentChannel, opsConsumer, key>>

\* the status ValidateWithExternalVendorAndUpdate ends with: answer is "error"
\* when vendor.Validate failed, and else validation[0].Status
ValidationStatus(enabled, answer) ==
    IF ~enabled THEN OnboardingStatusVendorValidationSuccess
    ELSE IF answer = "error" THEN OnboardingStatusVendorValidationFailure
    ELSE IF answer = "notCapable " \/ answer = "noDataFound"
         THEN OnboardingStatusVendorValidationFailure
    ELSE OnboardingStatusVendorValidationSuccess

ValidateWithExternalVendorAndUpdate(s) ==
    LET job == jobs[s]
    IN /\ job.kind = "verify" /\ job.pc = "validate"
       /\ \E answer \in CapabilityStatuses \cup {"error"} :
            LET st == ValidationStatus(settings.EnableVendorCapabilityCheck, answer)
                record == [job.rec EXCEPT !.status = st]
            IN /\ ~faults => answer = "capable"
               /\ vins' = UpdateVin(vins, job.vin, record, AllColumns)
               /\ jobs' = [jobs EXCEPT ![s] =
                             Finish(job, st = OnboardingStatusVendorValidationFailure)]
       /\ UNCHANGED <<reqs, seq, allocated, chain, m, settings, faults, resp, cache, consumer, enrollmentChannel, opsConsumer, key>>

(***************************************************************************)
(* The registry contracts behind the transactions client.                  *)
(***************************************************************************)
\* the vehicle an SD token is attached to, as a set
SDsOf(ch, vehicleNode) == {p \in ch.sd : p[2] = vehicleNode}

MintVehicleAndSDWithDD(ch) ==
    [veh |-> ch.veh \cup {ch.nveh + 1},
     sd |-> ch.sd \cup {<<ch.nsd + 1, ch.nveh + 1>>},
     nveh |-> ch.nveh + 1, nsd |-> ch.nsd + 1]

\* the registry mints an SD for a live vehicle that has none
CanMintSD(ch, vehicleNode) ==
    vehicleNode \in ch.veh /\ SDsOf(ch, vehicleNode) = {}

MintSD(ch, vehicleNode) ==
    [ch EXCEPT !.sd = @ \cup {<<ch.nsd + 1, vehicleNode>>}, !.nsd = @ + 1]

\* the signed user operation burns the SD token it was built for
CanBurnSD(ch, op) == \E p \in ch.sd : {p[1]} = op

BurnSD(ch, op) == [ch EXCEPT !.sd = {p \in @ : {p[1]} # op}]

\* a vehicle is burned when it is live and carries no SD
CanBurnVehicle(ch, op) == \E v \in ch.veh : {v} = op /\ SDsOf(ch, v) = {}

BurnVehicle(ch, op) == [ch EXCEPT !.veh = {v \in @ : {v} # op}]

(***************************************************************************)
(* internal/onboarding/onboard.go                                          *)
(***************************************************************************)
\* a faulty variant of NextVal: a sequence that does not advance
NextValStuck(last) == last

\* SELECT nextval('sd_wallet_index_seq')
NextVal(last) == last + 1

\* the stage Work enters after ConnectToVendorAndUpdate
AfterConnect(record) ==
    IF ~Valid(record.vtid) THEN "mintv"
    ELSE IF ~Valid(record.stid) THEN "mintsd"
    ELSE "minted"

\* a faulty variant of OnboardingWork: no early return for a minted record
OnboardingWorkNoReturn(s) ==
    LET job == jobs[s]
        found == job.vin \in DOMAIN vins
        record == IF found THEN vins[job.vin] ELSE NewVin(0)
    IN /\ job.kind = "onboard" /\ job.pc = "available"
       /\ jobs' = [jobs EXCEPT ![s] =
            IF ~found \/ record.status < OnboardingStatusVendorValidationSuccess
            THEN Finish(Running(job, "free", record), TRUE)
            ELSE Running(job, "connect", record)]
       /\ UNCHANGED <<vins, reqs, seq, allocated, chain, m, settings, faults, resp, cache, consumer, enrollmentChannel, opsConsumer, key>>

\* OnboardingWorker.Work up to ConnectToVendorAndUpdate
OnboardingWork(s) ==
    LET job == jobs[s]
        found == job.vin \in DOMAIN vins
        record == IF found THEN vins[job.vin] ELSE NewVin(0)
    IN /\ job.kind = "onboard" /\ job.pc = "available"
       /\ jobs' = [jobs EXCEPT ![s] =
            IF ~found \/ record.status < OnboardingStatusVendorValidationSuccess
            THEN Finish(Running(job, "free", record), TRUE)
            ELSE IF record.status = OnboardingStatusMintSuccess
                    /\ StringOf(record.conn) # "failed"
            THEN Finish(Running(job, "free", record), FALSE)
            ELSE Running(job, "connect", record)]
       /\ UNCHANGED <<vins, reqs, seq, allocated, chain, m, settings, faults, resp, cache, consumer, enrollmentChannel, opsConsumer, key>>

\* ConnectToVendorAndUpdate makes two writes: the two connection columns after
\* vendor.Connect, and the status when it returns (the deferred update).  The
\* first update runs outside its transaction, so that it can be applied and
\* still return an error (applied).  connected: vendor.Connect and the first
\* update returned no error; with settings.EnableVendorConnection off
\* vendor.Connect is not called and the update is the only call that fails,
\* and either failure ends the stage at OnboardingStatusConnectFailure.
ConnectToVendorAndUpdate(s) ==
    LET job == jobs[s]
        connection == [job.rec EXCEPT !.conn = {"succeeded"}, !.disc = {}]
    IN \/ /\ job.kind = "onboard" /\ job.pc = "connect"
          /\ \E connected \in BOOLEAN, applied \in BOOLEAN :
               /\ ~faults => connected
               /\ connected => applied
               /\ IF applied
                  THEN /\ vins' = UpdateVin(vins, job.vin, connection, {"conn", "disc"})
                       /\ jobs' = [jobs EXCEPT ![s] =
                             [job EXCEPT !.pc = "connected", !.err = ~connected,
                                         !.rec = [connection EXCEPT !.status =
                                                    IF connected
                                                    THEN OnboardingStatusConnectSuccess
                                                    ELSE OnboardingStatusConnectFailure]]]
                  ELSE /\ vins' = UpdateVin(vins, job.vin,
                                            [job.rec EXCEPT !.status =
                                               OnboardingStatusConnectFailure], {"status"})
                       /\ jobs' = [jobs EXCEPT ![s] = Finish(job, TRUE)]
          /\ UNCHANGED <<reqs, seq, allocated, chain, m, settings, faults, resp, cache, consumer, enrollmentChannel, opsConsumer, key>>
       \/ /\ job.kind = "onboard" /\ job.pc = "connected"
          /\ vins' = UpdateVin(vins, job.vin, job.rec, {"status"})
          /\ jobs' = [jobs EXCEPT ![s] =
                        IF job.err THEN Finish(job, TRUE)
                        ELSE [job EXCEPT !.pc = AfterConnect(job.rec)]]
          /\ UNCHANGED <<reqs, seq, allocated, chain, m, settings, faults, resp, cache, consumer, enrollmentChannel, opsConsumer, key>>

\* the columns the deferred update of a mint stage writes
MintColumns(stage) ==
    IF stage = "mintv" THEN {"status", "vtid", "stid", "widx"} ELSE {"status", "stid", "widx"}

\* a mint stage up to w.m.Lock(): FetchDeviceDefinitionByID (vehicle mint only),
\* GetNextSDWalletIndex, GetAddress and SignTypedData.  step is the call that
\* fails, or "lock" when none does.  GetNextSDWalletIndex fails before nextval
\* ran (BeginTx, the query) or after it (Commit): the sequence has advanced or
\* not, and no index is returned.  When a call fails the stage sets
\* MintFailure in memory and its deferred update runs; the update discards
\* its error, and returns at a failing BeginTx without a write (stored).
MintPrepare(s, stage) ==
    LET job == jobs[s]
        failure == [job.rec EXCEPT !.status = OnboardingStatusMintFailure]
    IN /\ job.kind = "onboard" /\ job.pc = stage
       /\ \E step \in {"definition", "index", "sign", "lock"}, advanced \in BOOLEAN,
             stored \in BOOLEAN :
            /\ step = "definition" => stage = "mintv" /\ ~advanced
            /\ ~faults => step = "lock"
            /\ step \in {"sign", "lock"} => advanced
            /\ step = "lock" => stored
            /\ advanced => seq < FirstSeq + MaxSeq
            /\ seq' = IF advanced THEN NextVal(seq) ELSE seq
            /\ allocated' = IF step \in {"sign", "lock"} THEN Append(allocated, seq')
                            ELSE allocated
            /\ IF step = "lock"
               THEN /\ jobs' = [jobs EXCEPT ![s] = [job EXCEPT !.pc = "lock", !.idx = {seq'}]]
                    /\ vins' = vins
               ELSE /\ jobs' = [jobs EXCEPT ![s] = Finish(job, TRUE)]
                    /\ vins' = IF stored
                               THEN UpdateVin(vins, job.vin, failure, MintColumns(stage))
                               ELSE vins
       /\ UNCHANGED <<reqs, chain, m, settings, faults, resp, cache, consumer, enrollmentChannel, opsConsumer, key>>

\* w.m.Lock() of the worker struct the job runs in
Lock(s) ==
    LET job == jobs[s]
    IN /\ job.kind \in TxKinds /\ job.pc = "lock"
       /\ ~m[job.kind]
       /\ m' = [m EXCEPT ![job.kind] = TRUE]
       /\ jobs' = [jobs EXCEPT ![s] = [job EXCEPT !.pc = "tx"]]
       /\ UNCHANGED <<vins, reqs, seq, allocated, chain, settings, faults, resp, cache, consumer, enrollmentChannel, opsConsumer, key>>

\* MintVehicleWithSDAndUpdate: the preparation, then the call of the registry
\* with w.m.Unlock(), then the deferred update when the function returns
MintVehicleWithSDAndUpdate(s) ==
    LET job == jobs[s]
    IN \/ MintPrepare(s, "mintv")
       \/ /\ job.kind = "onboard" /\ job.pc = "tx" /\ ~Valid(job.rec.vtid)
          /\ \E minted \in BOOLEAN :
               /\ minted => chain.nveh < MaxTok /\ chain.nsd < MaxTok
               /\ ~faults => minted
               /\ chain' = IF minted THEN MintVehicleAndSDWithDD(chain) ELSE chain
               /\ LET record == IF minted
                                THEN [job.rec EXCEPT !.widx = job.idx,
                                                     !.vtid = {chain'.nveh},
                                                     !.stid = {chain'.nsd},
                                                     !.status = OnboardingStatusMintSuccess]
                                ELSE [job.rec EXCEPT !.status = OnboardingStatusMintFailure]
                  IN jobs' = [jobs EXCEPT ![s] = [job EXCEPT !.rec = record, !.pc = "deferv",
                                                             !.err = ~minted]]
          /\ m' = [m EXCEPT !["onboard"] = FALSE]
          /\ UNCHANGED <<vins, reqs, seq, allocated, settings, faults, resp, cache, consumer, enrollmentChannel, opsConsumer, key>>
       \/ /\ job.kind = "onboard" /\ job.pc = "deferv"
          /\ vins' = UpdateVin(vins, job.vin, job.rec, MintColumns("mintv"))
          /\ jobs' = [jobs EXCEPT ![s] =
                        IF job.err THEN Finish(job, TRUE)
                        ELSE [job EXCEPT !.pc = AfterConnect(job.rec)]]
          /\ UNCHANGED <<reqs, seq, allocated, chain, m, settings, faults, resp, cache, consumer, enrollmentChannel, opsConsumer, key>>

MintSDAndUpdate(s) ==
    LET job == jobs[s]
    IN \/ MintPrepare(s, "mintsd")
       \/ /\ job.kind = "onboard" /\ job.pc = "tx" /\ Valid(job.rec.vtid)
          /\ \E minted \in BOOLEAN :
               /\ minted => CanMintSD(chain, Val(job.rec.vtid)) /\ chain.nsd < MaxTok
               /\ ~faults => (minted <=> CanMintSD(chain, Val(job.rec.vtid)))
               /\ chain' = IF minted THEN MintSD(chain, Val(job.rec.vtid)) ELSE chain
               /\ LET record == IF minted
                                THEN [job.rec EXCEPT !.widx = job.idx,
                                                     !.stid = {chain'.nsd},
                                                     !.status = OnboardingStatusMintSuccess]
                                ELSE [job.rec EXCEPT !.status = OnboardingStatusMintFailure]
                  IN jobs' = [jobs EXCEPT ![s] = [job EXCEPT !.rec = record, !.pc = "defersd",
                                                             !.err = ~minted]]
          /\ m' = [m EXCEPT !["onboard"] = FALSE]
          /\ UNCHANGED <<vins, reqs, seq, allocated, settings, faults, resp, cache, consumer, enrollmentChannel, opsConsumer, key>>
       \/ /\ job.kind = "onboard" /\ job.pc = "defersd"
          /\ vins' = UpdateVin(vins, job.vin, job.rec, MintColumns("mintsd"))
          /\ jobs' = [jobs EXCEPT ![s] = Finish(job, job.err)]
          /\ UNCHANGED <<reqs, seq, allocated, chain, m, settings, faults, resp, cache, consumer, enrollmentChannel, opsConsumer, key>>

\* Work's last branch: both tokens are there, the status-only MintSuccess update
OnboardingMinted(s) ==
    LET job == jobs[s]
        record == [job.rec EXCEPT !.status = OnboardingStatusMintSuccess]
    IN /\ job.kind = "onboard" /\ job.pc = "minted"
       /\ vins' = UpdateVin(vins, job.vin, record, {"status"})
       /\ jobs' = [jobs EXCEPT ![s] = Finish(job, FALSE)]
       /\ UNCHANGED <<reqs, seq, allocated, chain, m, settings, faults, resp, cache, consumer, enrollmentChannel, opsConsumer, key>>

\* A stage of the onboard worker that runs after the job's context is done (the
\* root context is cancelled on interrupt, or the 30 minute timeout passed):
\* w.update and GetNextSDWalletIndex fail at BeginTx(ctx), so the stage sets the
\* failure status in memory, its deferred update writes nothing, and Work
\* returns the error.  A write that was still to come (the deferred update of
\* a stage, the last update of Work) is not made either, and the next call of
\* w.update or GetNextSDWalletIndex makes Work return its error.
\* The disconnect and the delete worker go on after their context is done:
\* vendor.Disconnect and the transactions client take no context, so the job
\* keeps running with done set, and every w.update from then on returns at
\* BeginTx(ctx) without a write.
ContextDone(s) ==
    LET job == jobs[s]
    IN \/ /\ job.kind = "onboard"
          /\ job.pc \in {"connect", "connected", "mintv", "mintsd", "deferv", "defersd",
                         "minted"}
          /\ faults
          /\ jobs' = [jobs EXCEPT ![s] = Finish(job, TRUE)]
          /\ UNCHANGED <<vins, reqs, seq, allocated, chain, m, settings, faults, resp, cache, consumer, enrollmentChannel, opsConsumer, key>>
       \/ /\ job.kind \in {"disconnect", "delete"}
          /\ job.pc \in {"disconnect", "disconnected", "lock", "tx", "unlock", "defer"}
          /\ ~job.done
          /\ faults
          /\ jobs' = [jobs EXCEPT ![s] = [job EXCEPT !.done = TRUE]]
          /\ UNCHANGED <<vins, reqs, seq, allocated, chain, m, settings, faults, resp, cache, consumer, enrollmentChannel, opsConsumer, key>>

(***************************************************************************)
(* The process dies (fatal error of the runtime): requests in flight are   *)
(* gone, no mutex is held after the restart, and river rescues the jobs    *)
(* that were running.                                                      *)
(***************************************************************************)
Rescued(job) == IF job.pc \in {"free", "available"} THEN job ELSE Finish(job, TRUE)

\* the process exits with the registry as ch: what it held in memory (the
\* requests, the mutexes, the cache, the enrollment channel, the message the
\* operations consumer was handling) is gone
Exit(ch) ==
    /\ jobs' = [s \in 1..MaxJobs |-> Rescued(jobs[s])]
    /\ reqs' = [r \in 1..MaxReqs |-> NoReq]
    /\ m' = [k \in TxKinds |-> FALSE]
    /\ chain' = ch
    /\ cache' = [u \in {} |-> NewVin(0)]
    /\ enrollmentChannel' = 0
    /\ opsConsumer' = NoOperation
    /\ UNCHANGED <<vins, seq, allocated, settings, faults, resp, consumer, key>>

Crash == Exit(chain)

(***************************************************************************)
(* The disconnect worker                                                   *)
(***************************************************************************)
\* DisconnectWorker.Work up to DisconnectFromVendorAndUpdate
DisconnectWork(s) ==
    LET job == jobs[s]
        found == job.vin \in DOMAIN vins
        record == IF found THEN vins[job.vin] ELSE NewVin(0)
    IN /\ job.kind = "disconnect" /\ job.pc = "available"
       /\ jobs' = [jobs EXCEPT ![s] =
            IF ~found \/ record.status < OnboardingStatusMintSuccess
            THEN Finish(Running(job, "free", record), TRUE)
            ELSE IF record.status = OnboardingStatusBurnSDSuccess
            THEN Finish(Running(job, "free", record), FALSE)
            ELSE Running(job, "disconnect", record)]
       /\ UNCHANGED <<vins, reqs, seq, allocated, chain, m, settings, faults, resp, cache, consumer, enrollmentChannel, opsConsumer, key>>

\* DisconnectFromVendorAndUpdate makes two writes: the two connection columns
\* after vendor.Disconnect, and the status when it returns (the deferred
\* update).  An error of the first update (applied or not) gives
\* OnboardingStatusConnectFailure.  With the job's context done both updates
\* return at BeginTx: no column is written, and the status stays in memory.
\* disconnected: vendor.Disconnect returned no error; with
\* settings.EnableVendorConnection off it is not called, and the update is
\* the only call that fails.
DisconnectFromVendorAndUpdate(s) ==
    LET job == jobs[s]
        disconnection == [job.rec EXCEPT !.disc = {"succeeded"}, !.conn = {}]
    IN \/ /\ job.kind = "disconnect" /\ job.pc = "disconnect"
          /\ \E disconnected \in BOOLEAN, updated \in BOOLEAN, applied \in BOOLEAN :
               /\ ~faults => disconnected /\ updated
               /\ ~settings.EnableVendorConnection => disconnected
               /\ ~disconnected => ~updated /\ ~applied
               /\ updated => applied
               /\ job.done => ~applied
               /\ LET st == IF updated THEN OnboardingStatusDisconnectSuccess
                            ELSE IF disconnected THEN OnboardingStatusConnectFailure
                            ELSE OnboardingStatusDisconnectFailure
                  IN IF applied
                     THEN /\ vins' = UpdateVin(vins, job.vin, disconnection, {"conn", "disc"})
                          /\ jobs' = [jobs EXCEPT ![s] =
                                [job EXCEPT !.pc = "disconnected", !.err = ~updated,
                                            !.rec = [disconnection EXCEPT !.status = st]]]
                     ELSE /\ vins' = IF job.done THEN vins
                                    ELSE UpdateVin(vins, job.vin,
                                                   [job.rec EXCEPT !.status = st], {"status"})
                          /\ jobs' = [jobs EXCEPT ![s] = Finish(job, TRUE)]
          /\ UNCHANGED <<reqs, seq, allocated, chain, m, settings, faults, resp, cache, consumer, enrollmentChannel, opsConsumer, key>>
       \/ /\ job.kind = "disconnect" /\ job.pc = "disconnected"
          /\ vins' = IF job.done THEN vins ELSE UpdateVin(vins, job.vin, job.rec, {"status"})
          /\ jobs' = [jobs EXCEPT ![s] =
                        IF job.err THEN Finish(job, TRUE)
                        ELSE IF Valid(job.rec.stid) THEN [job EXCEPT !.pc = "lock"]
                        ELSE Finish(job, FALSE)]
          /\ UNCHANGED <<reqs, seq, allocated, chain, m, settings, faults, resp, cache, consumer, enrollmentChannel, opsConsumer, key>>

\* BurnSDAndUpdate after w.m.Lock().  sent: SendSignedUserOperation returned
\* no error; parsed: GetBurnSDByOwnerResult returned no error.  w.m.Unlock()
\* of a mutex that is not locked is a fatal error of the runtime.  The
\* deferred update is made when the function returns, after the Unlock; it
\* returns at BeginTx without a write when the job's context is done.
BurnSDAndUpdate(s) ==
    LET job == jobs[s]
        failure == [job.rec EXCEPT !.status = OnboardingStatusBurnSDFailure]
        success == [job.rec EXCEPT !.widx = {}, !.stid = {},
                                   !.status = OnboardingStatusBurnSDSuccess]
        cols == {"status", "stid", "widx"}
    IN \/ /\ job.kind = "disconnect" /\ job.pc = "tx"
          /\ \E sent \in BOOLEAN, parsed \in BOOLEAN :
               /\ parsed => sent /\ CanBurnSD(chain, job.op)
               /\ ~faults => (parsed <=> CanBurnSD(chain, job.op))
               /\ LET ch == IF parsed THEN BurnSD(chain, job.op) ELSE chain
                  IN IF ~m["disconnect"] THEN Exit(ch)
                     ELSE /\ chain' = ch
                          /\ m' = [m EXCEPT !["disconnect"] = FALSE]
                          /\ jobs' = [jobs EXCEPT ![s] =
                                IF sent /\ ~parsed
                                THEN [job EXCEPT !.rec = failure, !.pc = "unlock"]
                                ELSE [job EXCEPT !.rec = IF sent THEN success ELSE failure,
                                                 !.pc = "defer", !.err = ~sent]]
                          /\ UNCHANGED <<vins, reqs, seq, allocated, settings, faults, resp, cache, consumer, enrollmentChannel, opsConsumer, key>>
       \* the second w.m.Unlock() after GetBurnSDByOwnerResult failed
       \/ /\ job.kind = "disconnect" /\ job.pc = "unlock"
          /\ IF m["disconnect"]
             THEN /\ m' = [m EXCEPT !["disconnect"] = FALSE]
                  /\ jobs' = [jobs EXCEPT ![s] = [job EXCEPT !.rec = success, !.pc = "defer",
                                                             !.err = TRUE]]
                  /\ UNCHANGED <<vins, reqs, seq, allocated, chain, settings, faults, resp, cache, consumer, enrollmentChannel, opsConsumer, key>>
             ELSE Crash
       \/ /\ job.kind = "disconnect" /\ job.pc = "defer"
          /\ vins' = IF job.done THEN vins ELSE UpdateVin(vins, job.vin, job.rec, cols)
          /\ jobs' = [jobs EXCEPT ![s] = Finish(job, job.err)]
          /\ UNCHANGED <<reqs, seq, allocated, chain, m, settings, faults, resp, cache, consumer, enrollmentChannel, opsConsumer, key>>

(***************************************************************************)
(* internal/onboarding/delete.go                                           *)
(***************************************************************************)
\* DeleteWorker.Work up to BurnVehicleAndUpdate
DeleteWork(s) ==
    LET job == jobs[s]
        found == job.vin \in DOMAIN vins
        record == IF found THEN vins[job.vin] ELSE NewVin(0)
    IN /\ job.kind = "delete" /\ job.pc = "available"
       /\ jobs' = [jobs EXCEPT ![s] =
            IF ~found \/ record.status < OnboardingStatusBurnSDSuccess
            THEN Finish(Running(job, "free", record), TRUE)
            ELSE IF record.status = OnboardingStatusBurnVehicleSuccess
            THEN Finish(Running(job, "free", record), FALSE)
            ELSE IF Valid(record.stid)
            THEN Finish(Running(job, "free", record), TRUE)
            ELSE IF Valid(record.vtid)
            THEN Running(job, "lock", record)
            ELSE Finish(Running(job, "free", record), FALSE)]
       /\ UNCHANGED <<vins, reqs, seq, allocated, chain, m, settings, faults, resp, cache, consumer, enrollmentChannel, opsConsumer, key>>

\* BurnVehicleAndUpdate after w.m.Lock(): as BurnSDAndUpdate
BurnVehicleAndUpdate(s) ==
    LET job == jobs[s]
        failure == [job.rec EXCEPT !.status = OnboardingStatusBurnVehicleFailure]
        success == [job.rec EXCEPT !.vtid = {},
                                   !.status = OnboardingStatusBurnVehicleSuccess]
        cols == {"status", "vtid"}
    IN \/ /\ job.kind = "delete" /\ job.pc = "tx"
          /\ \E sent \in BOOLEAN, parsed \in BOOLEAN :
               /\ parsed => sent /\ CanBurnVehicle(chain, job.op)
               /\ ~faults => (parsed <=> CanBurnVehicle(chain, job.op))
               /\ LET ch == IF parsed THEN BurnVehicle(chain, job.op) ELSE chain
                  IN IF ~m["delete"] THEN Exit(ch)
                     ELSE /\ chain' = ch
                          /\ m' = [m EXCEPT !["delete"] = FALSE]
                          /\ jobs' = [jobs EXCEPT ![s] =
                                IF sent /\ ~parsed
                                THEN [job EXCEPT !.rec = failure, !.pc = "unlock"]
                                ELSE [job EXCEPT !.rec = IF sent THEN success ELSE failure,
                                                 !.pc = "defer", !.err = ~sent]]
                          /\ UNCHANGED <<vins, reqs, seq, allocated, settings, faults, resp, cache, consumer, enrollmentChannel, opsConsumer, key>>
       \* the second w.m.Unlock() after GetBurnVehicleByOwnerResult failed
       \/ /\ job.kind = "delete" /\ job.pc = "unlock"
          /\ IF m["delete"]
             THEN /\ m' = [m EXCEPT !["delete"] = FALSE]
                  /\ jobs' = [jobs EXCEPT ![s] = [job EXCEPT !.rec = success, !.pc = "defer",
                                                             !.err = TRUE]]
                  /\ UNCHANGED <<vins, reqs, seq, allocated, chain, settings, faults, resp, cache, consumer, enrollmentChannel, opsConsumer, key>>
             ELSE Crash
       \/ /\ job.kind = "delete" /\ job.pc = "defer"
          /\ vins' = IF job.done THEN vins ELSE UpdateVin(vins, job.vin, job.rec, cols)
          /\ jobs' = [jobs EXCEPT ![s] = Finish(job, job.err)]
          /\ UNCHANGED <<reqs, seq, allocated, chain, m, settings, faults, resp, cache, consumer, enrollmentChannel, opsConsumer, key>>

(***************************************************************************)
(* The vendor operations stream (internal/service/vehicle.go)              *)
(***************************************************************************)
OperationStatuses == {"inQueue", "inProgress", "succeeded", "failed"}

\* the columns the two updates of the stream write; operr is the three
\* operation_error columns
EnrollmentColumns == {"conn", "disc", "ext", "operr"}

\* Vehicle.UpdateEnrollmentStatus: the vinRecord it writes for the row it
\* selected; error is the operation error passed ({}: nil)
UpdateEnrollmentStatus(row, status, externalID, error) ==
    [row EXCEPT !.conn = {status}, !.ext = {externalID},
                !.disc = IF status = "succeeded" THEN {} ELSE @,
                !.operr = error]

\* Vehicle.UpdateUnenrollmentStatus: the vinRecord it writes for the row it
\* selected
UpdateUnenrollmentStatus(row, status, error) ==
    [row EXCEPT !.disc = {status},
                !.conn = IF status = "succeeded" THEN {} ELSE @,
                !.ext = IF status = "succeeded" THEN {} ELSE @,
                !.operr = error]

\* the capacity main gives the enrollment channel: make(chan ..., 100)
EnrollmentChannelCapacity == 100

\* h.EnrollmentChannel <- operation: the send completes when the buffer has
\* room; nothing in the program receives from the channel
Send ==
    /\ enrollmentChannel < EnrollmentChannelCapacity
    /\ enrollmentChannel' = enrollmentChannel + 1

\* the external id ConsumeClaim passes for an enroll message
vehicleId(operation) ==
    IF operation.Status = "succeeded" THEN operation.VehicleID ELSE operation.ID

\* one turn of the loop of MessageHandlerOperations.ConsumeClaim, for an
\* enrollment message.  The send on the channel and the SELECT of the update
\* are one step, which ends the turn for a VIN without a row; the UPDATE of
\* the selected record is the next.
ConsumeOperation(operation) ==
    \/ /\ opsConsumer.pc = "idle"
       /\ operation.Action \in {"enroll", "unenroll"}
       /\ Send
       /\ opsConsumer' =
            IF operation.VIN \notin DOMAIN vins THEN NoOperation
            ELSE [pc |-> "update", msg |-> operation,
                  rec |-> IF operation.Action = "enroll"
                          THEN UpdateEnrollmentStatus(
                                   vins[operation.VIN], operation.Status,
                                   vehicleId(operation),
                                   IF operation.Status = "failed" THEN {operation.Error}
                                   ELSE {})
                          ELSE UpdateUnenrollmentStatus(vins[operation.VIN],
                                                        operation.Status, {})]
       /\ UNCHANGED <<vins, jobs, reqs, seq, allocated, chain, m, settings, faults, resp, cache, consumer, key>>
    \/ /\ opsConsumer.pc = "update"
       /\ opsConsumer.msg = operation
       /\ vins' = UpdateVin(vins, operation.VIN, opsConsumer.rec, EnrollmentColumns)
       /\ opsConsumer' = NoOperation
       /\ UNCHANGED <<jobs, reqs, seq, allocated, chain, m, settings, faults, resp, cache, consumer, enrollmentChannel, key>>

(***************************************************************************)
(* POST /v1/vehicle/register.  sd and definition are what the identity API *)
(* reports for the token: SyntheticDevice.TokenID (0: none), Definition.ID *)
(***************************************************************************)
\* Vehicle.GetVehicleByExternalID: the rows whose external_id is the string
GetVehicleByExternalID(tbl, externalID) == {u \in DOMAIN tbl : tbl[u].ext = {externalID}}

\* the row RegisterVehicle upserts for the row it found
RegisteredVin(vin, sd, definition) ==
    LET withSD == IF sd # 0 THEN [vin EXCEPT !.stid = {sd}] ELSE vin
    IN IF definition # "" THEN [withSD EXCEPT !.ddid = {definition}] ELSE withSD

\* the request of RegisterVehicle after GetVehicleByExternalID gave the row
\* of u: newVin is the row with what the identity API reports
RegisterLookup(r, u, tokenIDToRegister, sd, definition) ==
    reqs' = [reqs EXCEPT ![r] =
               [NoReq EXCEPT !.kind = "register", !.vin = u, !.pc = "upsert",
                             !.rec = RegisteredVin(vins[u], sd, definition),
                             !.admitted = TRUE, !.token = tokenIDToRegister]]

\* the row of u is linked to another token: 409
RegisterConflict(u, tokenIDToRegister) ==
    Valid(vins[u].vtid) /\ Val(vins[u].vtid) # tokenIDToRegister

\* the HTTP status of RegisterVehicle whose upsert of q.rec gave tbl
RegisterCode(q, tbl) == IF tbl[q.vin] = q.rec THEN 200 ELSE 500

\* RegisterVehicle: GetVehicleByExternalID, then InsertOrUpdateVin(newVin)
RegisterVehicle(vinToRegister, tokenIDToRegister, sd, definition) ==
    \E r \in 1..MaxReqs :
        \/ /\ reqs[r].pc = "idle"
           /\ \E u \in GetVehicleByExternalID(vins, vinToRegister) :
                /\ ~RegisterConflict(u, tokenIDToRegister)
                /\ RegisterLookup(r, u, tokenIDToRegister, sd, definition)
           /\ UNCHANGED <<vins, jobs, seq, allocated, chain, m, settings, faults, resp, cache, consumer, enrollmentChannel, opsConsumer, key>>
        \/ /\ reqs[r].pc = "upsert" /\ reqs[r].kind = "register"
           /\ reqs[r].rec.ext = {vinToRegister} /\ reqs[r].token = tokenIDToRegister
           /\ reqs[r].rec = RegisteredVin(reqs[r].rec, sd, definition)
           /\ vins' = InsertOrUpdateVin(vins, reqs[r].vin, reqs[r].rec)
           /\ reqs' = [reqs EXCEPT ![r] = NoReq]
           /\ UNCHANGED <<jobs, seq, allocated, chain, m, settings, faults, resp, cache, consumer, enrollmentChannel, opsConsumer, key>>

\* POST /v1/vehicle/register as a whole request, the response recorded
RegisterRequest(vinToRegister, tokenIDToRegister, sd, definition) ==
    LET found == GetVehicleByExternalID(vins, vinToRegister)
        response(code) == [method |-> "POST", kind |-> "register",
                           list |-> <<vinToRegister>>, code |-> code,
                           statuses |-> <<>>, token_id |-> tokenIDToRegister]
    IN \E r \in 1..MaxReqs :
        \/ /\ reqs[r].pc = "idle"
           /\ IF found = {}
              THEN resp' = response(500) /\ reqs' = reqs
              ELSE \E u \in found :
                     IF RegisterConflict(u, tokenIDToRegister)
                     THEN resp' = response(409) /\ reqs' = reqs
                     ELSE /\ resp' = resp
                          /\ RegisterLookup(r, u, tokenIDToRegister, sd, definition)
           /\ UNCHANGED <<vins, jobs, seq, allocated, chain, m, settings, faults, cache, consumer, enrollmentChannel, opsConsumer, key>>
        \/ /\ reqs[r].pc = "upsert" /\ reqs[r].kind = "register"
           /\ reqs[r].rec.ext = {vinToRegister} /\ reqs[r].token = tokenIDToRegister
           /\ reqs[r].rec = RegisteredVin(reqs[r].rec, sd, definition)
           /\ vins' = InsertOrUpdateVin(vins, reqs[r].vin, reqs[r].rec)
           /\ resp' = response(RegisterCode(reqs[r], vins'))
           /\ reqs' = [reqs EXCEPT ![r] = NoReq]
           /\ UNCHANGED <<jobs, seq, allocated, chain, m, settings, faults, cache, consumer, enrollmentChannel, opsConsumer, key>>

(***************************************************************************)
(* The system.                                                             *)
(***************************************************************************)
Handlers(V) ==
    \E vin \in V :
        \/ SubmitVerificationForVins(vin)
        \/ SubmitMintDataForVins(vin)
        \/ SubmitDisconnectDataForVins(vin)
        \/ SubmitDeleteDataForVins(vin)

\* fewer than MaxQueued jobs are queued or running
Accepting == Cardinality(FreeSlots) > MaxJobs - MaxQueued

\* a submit handler that answers a request only when fewer than MaxQueued jobs
\* are queued or running: its round trips to the database
Submit(kind, vin) ==
    \E r \in 1..MaxReqs :
        \/ Accepting /\ SubmitLoad(r, kind, vin)
        \/ SubmitStore(r, kind, vin)

\* a submit handler that answers a request for a VIN only when no job of the
\* VIN is queued or running
SubmitFree(kind, vin) ==
    \E r \in 1..MaxReqs :
        \/ LiveJobs(vin) = {} /\ SubmitLoad(r, kind, vin)
        \/ SubmitStore(r, kind, vin)

\* a submit handler that answers a request only when no job is queued or running
SubmitIdle(kind, vin) ==
    \E r \in 1..MaxReqs :
        \/ FreeSlots = 1..MaxJobs /\ SubmitLoad(r, kind, vin)
        \/ SubmitStore(r, kind, vin)

\* a submit handler that answers a request only when no job that sends a
\* transaction is queued or running, and fewer than MaxQueued jobs are
SubmitTx(kind, vin) ==
    \E r \in 1..MaxReqs :
        \/ /\ Accepting /\ \A s \in 1..MaxJobs : jobs[s].kind \notin TxKinds
           /\ SubmitLoad(r, kind, vin)
        \/ SubmitStore(r, kind, vin)

\* a submit handler that answers a request only for a VIN that has no row or a
\* row no worker has written yet, while fewer than MaxQueued jobs are queued
\* or running
SubmitNew(kind, vin) ==
    \E r \in 1..MaxReqs :
        \/ Accepting /\ LoadedVin(kind, vin).status = 0 /\ SubmitLoad(r, kind, vin)
        \/ SubmitStore(r, kind, vin)

VerifyWorker ==
    \E s \in 1..MaxJobs :
        \/ VerifyWork(s)
        \/ DecodeVinAndUpdate(s)
        \/ DecodeVinResult(s)
        \/ ValidateWithExternalVendorAndUpdate(s)

OnboardingWorker ==
    \E s \in 1..MaxJobs :
        \/ OnboardingWork(s)
        \/ ConnectToVendorAndUpdate(s)
        \/ MintVehicleWithSDAndUpdate(s)
        \/ MintSDAndUpdate(s)
        \/ OnboardingMinted(s)

DisconnectWorker ==
    \E s \in 1..MaxJobs :
        \/ DisconnectWork(s)
        \/ DisconnectFromVendorAndUpdate(s)
        \/ BurnSDAndUpdate(s)

DeleteWorker ==
    \E s \in 1..MaxJobs :
        \/ DeleteWork(s)
        \/ BurnVehicleAndUpdate(s)

Workers ==
    \/ VerifyWorker
    \/ OnboardingWorker
    \/ DisconnectWorker
    \/ DeleteWorker
    \/ \E s \in 1..MaxJobs : Lock(s)

\* the enrollment messages of the stream: VINs V, statuses S, vendor
\* identifiers X
OperationMessagesOf(V, S, X) ==
    [Action : {"enroll", "unenroll"}, Status : S, ID : {"op-1"}, VIN : V,
     VehicleID : X, Error : {"error"}]

\* the operations consumer handling the first MaxMessages messages of the stream
Operations(V, S, X) ==
    \E operation \in OperationMessagesOf(V, S, X) :
        /\ opsConsumer.pc = "idle" => enrollmentChannel < MaxMessages
        /\ ConsumeOperation(operation)

Register(V) ==
    \E vinToRegister \in V, tokenIDToRegister \in 1..MaxTok, sd \in 0..MaxTok,
       definition \in {"", "dd-1"} :
         RegisterVehicle(vinToRegister, tokenIDToRegister, sd, definition)

(***************************************************************************)
(* Specifications.  Each one is the oracle with a part of its clients and  *)
(* workers active; a behaviour of any of them is a behaviour of the        *)
(* oracle.                                                                 *)
(***************************************************************************)
Enabled ==
    [EnableVendorCapabilityCheck |-> TRUE, EnableVendorConnection |-> TRUE,
     EnableVendorTestMode |-> FALSE]

OneVin == {"1FTFW1ET5DFA12345"}

TxWorkers ==
    \/ OnboardingWorker
    \/ DisconnectWorker
    \/ DeleteWorker
    \/ \E s \in 1..MaxJobs : Lock(s)

\* the start of a run in which every service answers
InitServing == Init /\ settings = Enabled /\ faults = FALSE

\* the start of a run in which the services may fail
InitFailing == Init /\ settings = Enabled /\ faults = TRUE

\* one VIN through its whole lifecycle, every service answering
Next ==
    \/ \E vin \in OneVin, kind \in Kinds : SubmitIdle(kind, vin)
    \/ Workers

Spec == InitServing /\ [][Next]_vars

\* verification of the VINs, requests interleaved with the jobs, services failing
NextVerify ==
    \/ \E vin \in Vins : Submit("verify", vin)
    \/ VerifyWorker

InitVerify == Init /\ ~settings.EnableVendorTestMode /\ faults = TRUE

SpecVerify == InitVerify /\ [][NextVerify]_vars

\* one VIN minted, disconnected and deleted one job after the other, services
\* failing
NextFaults ==
    \/ \E vin \in OneVin, kind \in TxKinds : SubmitIdle(kind, vin)
    \/ TxWorkers

SpecFaults == InitFailing /\ [][NextFaults]_vars

\* two VINs minted and the first disconnected, a VIN having one job at a time,
\* every service answering
NextFleet ==
    \/ \E vin \in Vins : SubmitFree("onboard", vin)
    \/ \E vin \in OneVin : SubmitFree("disconnect", vin)
    \/ OnboardingWorker
    \/ DisconnectWorker
    \/ \E s \in 1..MaxJobs : Lock(s)

SpecFleet == InitServing /\ [][NextFleet]_vars

\* the onboard worker for VINs that were never disconnected: Work never
\* reaches MintSDAndUpdate
FirstMint ==
    \E s \in 1..MaxJobs :
        \/ OnboardingWork(s)
        \/ ConnectToVendorAndUpdate(s)
        \/ MintVehicleWithSDAndUpdate(s)
        \/ OnboardingMinted(s)
        \/ Lock(s)

\* two VINs minted one job after the other, the operations stream naming one
\* VIN as the vendor's identifier, and the register endpoint for that VIN
NextRegister ==
    \/ \E vin \in Vins : SubmitIdle("onboard", vin)
    \/ FirstMint
    \/ Operations(OneVin, {"succeeded"}, OneVin)
    \/ Register(OneVin)

SpecRegister == InitServing /\ [][NextRegister]_vars

\* one VIN minted, the operations stream naming it as the vendor's identifier,
\* and the first register request of the run
NextRegisterRequest ==
    \/ \E vin \in OneVin : SubmitIdle("onboard", vin)
    \/ FirstMint
    \/ Operations(OneVin, OperationStatuses, OneVin)
    \/ \E vinToRegister \in OneVin, tokenIDToRegister \in 1..MaxTok, sd \in 0..MaxTok,
          definition \in {"", "dd-1"} :
         /\ resp = NoResp
         /\ RegisterRequest(vinToRegister, tokenIDToRegister, sd, definition)

SpecRegisterRequest == InitServing /\ [][NextRegisterRequest]_vars

\* one VIN minted, disconnected and deleted one job after the other, services
\* failing and the job contexts ending at any stage
NextStages ==
    \/ \E vin \in OneVin, kind \in TxKinds : SubmitIdle(kind, vin)
    \/ TxWorkers
    \/ \E s \in 1..MaxJobs : ContextDone(s)

SpecStages == InitFailing /\ [][NextStages]_vars

\* one VIN submitted for verification and for minting, every service answering
NextReverify ==
    \/ \E vin \in OneVin, kind \in {"verify", "onboard"} : Submit(kind, vin)
    \/ VerifyWorker
    \/ FirstMint

SpecReverify == InitServing /\ [][NextReverify]_vars

\* one VIN posted for verification more than once at the start, then minted and
\* disconnected one job after the other while a verify job is still queued or
\* running, every service answering
NextStale ==
    \/ \E vin \in OneVin : SubmitNew("verify", vin)
    \/ \E vin \in OneVin, kind \in {"onboard", "disconnect"} : SubmitTx(kind, vin)
    \/ VerifyWorker
    \/ OnboardingWorker
    \/ DisconnectWorker
    \/ \E s \in 1..MaxJobs : Lock(s)

SpecStale == InitServing /\ [][NextStale]_vars

(***************************************************************************)
(* Properties.                                                             *)
(***************************************************************************)
Rows == {vins[u] : u \in DOMAIN vins}

\* C1: a VIN never has more than one job queued or executing.
OneJobPerVin == \A vin \in Vins : Cardinality(LiveJobs(vin)) <= 1

\* C2: in every row wallet_index is non-null exactly when synthetic_token_id is
\* non-null.
WalletIndexIffSyntheticToken == \A row \in Rows : Valid(row.widx) <=> Valid(row.stid)

\* C3: a row whose status is MintSuccess (53) holds both token ids.
MintedHasBothTokens ==
    \A row \in Rows :
        row.status = OnboardingStatusMintSuccess => Valid(row.vtid) /\ Valid(row.stid)

\* C4: a row at BurnSDSuccess (83) has no synthetic token and still its vehicle
\* token; a row at BurnVehicleSuccess (103) has neither token.
BurnedTokensCleared ==
    \A row \in Rows :
        /\ row.status = OnboardingStatusBurnSDSuccess
             => ~Valid(row.stid) /\ Valid(row.vtid)
        /\ row.status = OnboardingStatusBurnVehicleSuccess
             => ~Valid(row.stid) /\ ~Valid(row.vtid)

\* C5: GetNextSDWalletIndex returns strictly increasing values, none of them
\* twice, and no two rows hold the same wallet_index.
WalletIndexesDistinct ==
    /\ \A i, j \in 1..Len(allocated) : i < j => allocated[i] < allocated[j]
    /\ \A u, w \in DOMAIN vins :
         u # w /\ Valid(vins[u].widx) => vins[u].widx # vins[w].widx

\* two rows hold a wallet index each, and one more index was consumed by a mint
\* whose result no row holds
WalletIndexesInUse ==
    /\ \E u, w \in DOMAIN vins : u # w /\ Valid(vins[u].widx) /\ Valid(vins[w].widx)
    /\ \E i \in 1..Len(allocated) : \A row \in Rows : row.widx # {allocated[i]}

\* C6: no two rows hold the same non-null vehicle_token_id, and no two the same
\* non-null synthetic_token_id: a write that would create a duplicate fails and
\* leaves the rows as they were.
TokenIdsUnique ==
    \A u, w \in DOMAIN vins :
        u # w => /\ Valid(vins[u].vtid) => vins[u].vtid # vins[w].vtid
                 /\ Valid(vins[u].stid) => vins[u].stid # vins[w].stid

\* two rows hold a synthetic token each, and the upsert of a registration that
\* would give one of them the token of the other is answered 500
DuplicateRejected ==
    \E r \in 1..MaxReqs, w \in DOMAIN vins :
        LET q == reqs[r]
        IN /\ q.kind = "register" /\ q.pc = "upsert"
           /\ q.vin \in DOMAIN vins /\ w # q.vin
           /\ Valid(vins[q.vin].stid) /\ Valid(vins[w].stid)
           /\ q.rec.stid = vins[w].stid
           /\ RegisterCode(q, InsertOrUpdateVin(vins, q.vin, q.rec)) = 500

\* the failure statuses the workers of a kind persist
WorkerFailures(kind) ==
    CASE kind = "verify" -> {OnboardingStatusDecodingFailure,
                             OnboardingStatusVendorValidationFailure}
      [] kind = "onboard" -> {OnboardingStatusConnectFailure, OnboardingStatusMintFailure}
      [] kind = "disconnect" -> {OnboardingStatusDisconnectFailure,
                                 OnboardingStatusConnectFailure,
                                 OnboardingStatusBurnSDFailure}
      [] kind = "delete" -> {OnboardingStatusBurnVehicleFailure}

\* C7: when a job of a kind stores one of the failure statuses the workers of
\* that kind persist, the gate of the kind admits a new POST for the row.
FailureAdmitsRetry ==
    [][\A s \in 1..MaxJobs :
         (/\ jobs[s].kind # "none" /\ jobs'[s] # jobs[s]
          /\ jobs[s].vin \in DOMAIN vins
          /\ vins'[jobs[s].vin].status # vins[jobs[s].vin].status
          /\ vins'[jobs[s].vin].status \in WorkerFailures(jobs[s].kind))
           => Gate(jobs[s].kind, vins'[jobs[s].vin])]_vars

\* C8: a job of any kind is run at most once, also when its worker returned an
\* error.
JobsRunAtMostOnce == \A s \in 1..MaxJobs : jobs[s].attempt <= 1

\* C9: when a submit handler ran with its gate admitting the VIN, the status
\* its upsert leaves in the row is the kind's SubmitPending or SubmitFailure.
SubmitStoresPendingOrFailure ==
    [][\A r \in 1..MaxReqs, kind \in Kinds, vin \in Vins :
         SubmitStore(r, kind, vin) /\ reqs[r].admitted
           => /\ vin \in DOMAIN vins'
              /\ vins'[vin].status \in {SubmitPending(kind), SubmitFailure(kind)}]_vars

\* C10: at most one job is between w.m.Lock() and w.m.Unlock(), that is, inside
\* an on-chain submit call of the transactions client.
OneSubmitCallInProgress == Cardinality({s \in 1..MaxJobs : jobs[s].pc = "tx"}) <= 1

\* C11: when the gate denies a POST for a VIN, the handler enqueues no job and
\* neither creates nor changes the row of the VIN.
DeniedSubmitHasNoEffect ==
    [][\A r \in 1..MaxReqs, kind \in Kinds, vin \in Vins :
         /\ SubmitLoad(r, kind, vin) /\ ~Gate(kind, LoadedVin(kind, vin)) => jobs' = jobs
         /\ SubmitStore(r, kind, vin) /\ ~reqs[r].admitted => vins' = vins]_vars

(***************************************************************************)
(* Whole requests.  A VIN of a request is the sequence of its characters;  *)
(* the key of a row is the text the characters spell.                      *)
(***************************************************************************)
\* longest VIN list of a request
MaxList == 3

\* vinRegexp: ^[A-HJ-NPR-Z0-9]{17}$
VinAlphabet ==
    {"A", "B", "C", "D", "E", "F", "G", "H", "J", "K", "L", "M", "N", "P", "R", "S",
     "T", "U", "V", "W", "X", "Y", "Z", "0", "1", "2", "3", "4", "5", "6", "7", "8", "9"}

\* unicode.IsSpace, the white space strings.TrimSpace removes.  An element of
\* a VIN is one character; a character that has no spelling in a string of
\* this language is written by its code point
WhiteSpace ==
    {"\t", "\n", "U+000B", "\f", "\r", " ", "U+0085", "U+00A0", "U+1680", "U+2000",
     "U+2001", "U+2002", "U+2003", "U+2004", "U+2005", "U+2006", "U+2007", "U+2008",
     "U+2009", "U+200A", "U+2028", "U+2029", "U+202F", "U+205F", "U+3000"}

RECURSIVE TrimLeft(_)
TrimLeft(cs) ==
    IF cs # <<>> /\ Head(cs) \in WhiteSpace THEN TrimLeft(Tail(cs)) ELSE cs

RECURSIVE TrimRight(_)
TrimRight(cs) ==
    IF cs # <<>> /\ cs[Len(cs)] \in WhiteSpace
    THEN TrimRight(SubSeq(cs, 1, Len(cs) - 1))
    ELSE cs

\* strings.TrimSpace
TrimSpace(cs) == TrimRight(TrimLeft(cs))

\* utf8.RuneLen: the bytes of a character in a Go string.  The characters of
\* the model above U+007F are U+0085, U+00A0 and U+00E9 (two bytes) and the
\* other white space from U+1680 on (three bytes)
RuneLen(c) ==
    IF c \in {"U+0085", "U+00A0", "U+00E9"} THEN 2
    ELSE IF c \in WhiteSpace \ {"\t", "\n", "U+000B", "\f", "\r", " "} THEN 3
    ELSE 1

\* len(vin) of a Go string: its bytes
RECURSIVE len(_)
len(cs) == IF cs = <<>> THEN 0 ELSE RuneLen(Head(cs)) + len(Tail(cs))

\* a faulty variant of isValidVin: the length alone
isValidVinByLength(cs) == len(cs) = 17

\* isValidVin: in test mode 17 bytes, otherwise vinRegexp, 17 characters of
\* the VIN alphabet
isValidVin(cs) ==
    IF settings.EnableVendorTestMode
    THEN len(cs) = 17
    ELSE Len(cs) = 17 /\ \A i \in 1..Len(cs) : cs[i] \in VinAlphabet

\* the string the characters spell
RECURSIVE Text(_)
Text(cs) == IF cs = <<>> THEN "" ELSE Head(cs) \o Text(Tail(cs))

\* validVins: the trimmed VINs of the list that pass isValidVin, in order
RECURSIVE ValidVins(_)
ValidVins(list) ==
    IF list = <<>> THEN <<>>
    ELSE LET strippedVin == TrimSpace(Head(list))
         IN (IF isValidVin(strippedVin) THEN <<Text(strippedVin)>> ELSE <<>>)
              \o ValidVins(Tail(list))

\* slices.Compact: of every run of equal neighbours the first one
RECURSIVE Compact(_)
Compact(list) ==
    IF Len(list) <= 1 THEN list
    ELSE IF list[1] = list[2] THEN Compact(Tail(list))
    ELSE <<list[1]>> \o Compact(Tail(list))

\* the 400 of the checks every VIN-list handler starts with, or 0 when the list passes
ValidationCode(list) ==
    LET validVins == ValidVins(list)
    IN IF Len(validVins) # Len(list) THEN 400
       ELSE IF Len(validVins) # Len(Compact(validVins)) THEN 400
       ELSE 0

VinStatus(vin, status, details) == [vin |-> vin, status |-> status, details |-> details]

\* the view a submit handler reports for a VIN its gate denied
SkippedStatus(kind, status) ==
    IF kind = "delete" THEN GetBurnStatus(status) ELSE GetVerificationStatus(status)

\* the entry of a submit handler for one VIN
SubmitEntry(kind, vin, dbVin, admitted, enqueued) ==
    IF admitted /\ enqueued
    THEN VinStatus(vin, "Pending", GetDetailedStatus(SubmitPending(kind)))
    ELSE IF admitted
    THEN VinStatus(vin, "Failure", GetDetailedStatus(SubmitFailure(kind)))
    ELSE VinStatus(vin, SkippedStatus(kind, dbVin.status), GetDetailedStatus(dbVin.status))

\* Vehicle.GetVehiclesByVinsAndOnboardingStatusRange: the rows of the VINs whose
\* status is in [minStatus, maxStatus] or one of additionalStatuses
GetVehiclesByVinsAndOnboardingStatusRange(vehicleIDs, minStatus, maxStatus, additionalStatuses) ==
    {u \in DOMAIN vins :
        /\ \E i \in 1..Len(vehicleIDs) : vehicleIDs[i] = u
        /\ \/ vins[u].status >= minStatus /\ vins[u].status <= maxStatus
           \/ vins[u].status \in additionalStatuses}

\* Vehicle.GetVehiclesByVinsAndOnboardingStatus: the rows of the VINs at status
GetVehiclesByVinsAndOnboardingStatus(vehicleIDs, status) ==
    {u \in DOMAIN vins :
        (\E i \in 1..Len(vehicleIDs) : vehicleIDs[i] = u) /\ vins[u].status = status}

\* the rows a query without ORDER BY returns for the VINs of S: any order
AnyOrder(S) ==
    {f \in [1..Cardinality(S) -> S] : \A i, j \in 1..Cardinality(S) : f[i] = f[j] => i = j}

\* indexedDbVins[vin] of a submit handler: the row loaded last for the VIN, or
\* a new dbmodels.Vin at the handler's SubmitUnknown status
indexedDbVins(dbVins, kind, vin) ==
    LET hits == {k \in 1..Len(dbVins) : dbVins[k].vin = vin}
    IN IF hits = {} THEN NewVin(SubmitUnknown(kind))
       ELSE dbVins[CHOOSE k \in hits : \A j \in hits : j <= k].row

\* a POST submit handler on the VIN list of one request, a step for each round
\* trip to the database: the checks of the request and GetVehiclesByVins; for
\* POST mint the query of the minted rows, which appends those whose connection
\* failed; then for each VIN of validVins the gate on the loaded row with
\* riverClient.Insert, and InsertOrUpdateVin of the loaded row.  The request
\* in flight is in its slot: the rows loaded, the position in validVins, the
\* entries so far.  wallet: the token of the request carries ethereum_address;
\* parsed: BodyParser read the body (a body it cannot read names no VIN);
\* minting: getValidatedMintingData got the device definition of every entry
\* whose typed data is MintVehicleWithDeviceDefinitionSign; loaded: the query
\* returned no error (the 404 of the handlers needs sql.ErrNoRows, which the
\* queries of the service never return); fails: riverClient.Insert returns an
\* error.  A request is taken when the queue of the model has a slot for a job
\* of each of its VINs.
PostSubmit(kind, list) ==
    \E r \in 1..MaxReqs :
        LET q == reqs[r]
            validVins == ValidVins(list)
            response(code, statuses) ==
                [method |-> "POST", kind |-> kind, list |-> list, code |-> code,
                 statuses |-> statuses]
            rows(S) == LET f == CHOOSE g \in AnyOrder(S) : TRUE
                       IN [k \in 1..Cardinality(S) |-> [vin |-> f[k], row |-> vins[f[k]]]]
            vin == validVins[q.i]
            dbVin == indexedDbVins(q.dbVins, kind, vin)
        IN \/ /\ \A x \in 1..MaxReqs : reqs[x].pc = "idle"
              /\ Len(list) <= Cardinality(FreeSlots)
              /\ \E wallet \in BOOLEAN, parsed \in BOOLEAN, minting \in BOOLEAN,
                    loaded \in BOOLEAN :
                   /\ ~faults \/ kind = "verify" => wallet
                   /\ list # <<>> => parsed
                   /\ ~faults \/ kind # "onboard" \/ list = <<>> => minting
                   /\ ~faults => loaded
                   /\ IF ~wallet
                      THEN resp' = response(500, <<>>) /\ reqs' = reqs
                      ELSE IF ~parsed
                      THEN resp' = response(400, <<>>) /\ reqs' = reqs
                      ELSE IF ~minting \/ ValidationCode(list) = 400
                      THEN resp' = response(400, <<>>) /\ reqs' = reqs
                      ELSE IF validVins = <<>>
                      THEN resp' = response(200, <<>>) /\ reqs' = reqs
                      ELSE IF ~loaded
                      THEN resp' = response(500, <<>>) /\ reqs' = reqs
                      ELSE /\ resp' = resp
                           /\ reqs' = [reqs EXCEPT ![r] =
                                [NoReq EXCEPT
                                   !.kind = kind, !.list = list, !.i = 1,
                                   !.pc = IF kind = "onboard" THEN "minted" ELSE "insert",
                                   !.dbVins = rows({u \in DOMAIN vins :
                                                     \E k \in 1..Len(validVins) :
                                                        validVins[k] = u})]]
              /\ UNCHANGED <<vins, jobs, seq, allocated, chain, m, settings, faults, cache, consumer, enrollmentChannel, opsConsumer, key>>
           \/ /\ q.pc = "minted" /\ q.kind = kind /\ q.list = list
              /\ \E loaded \in BOOLEAN :
                   LET mintedVins == GetVehiclesByVinsAndOnboardingStatus(
                                         validVins, OnboardingStatusMintSuccess)
                       vendorFailedMintedVins ==
                           {u \in mintedVins : StringOf(vins[u].conn) = "failed"}
                   IN /\ ~faults => loaded
                      /\ IF ~loaded
                         THEN /\ resp' = response(500, <<>>)
                              /\ reqs' = [reqs EXCEPT ![r] = NoReq]
                         ELSE /\ resp' = resp
                              /\ reqs' = [reqs EXCEPT ![r] =
                                    [q EXCEPT !.pc = "insert",
                                              !.dbVins = @ \o rows(vendorFailedMintedVins)]]
              /\ UNCHANGED <<vins, jobs, seq, allocated, chain, m, settings, faults, cache, consumer, enrollmentChannel, opsConsumer, key>>
           \/ /\ q.pc = "insert" /\ q.kind = kind /\ q.list = list
              /\ \E fails \in BOOLEAN, op \in UserOperation(kind) :
                   LET admitted == Gate(kind, dbVin)
                       enqueued == admitted /\ ~fails
                   IN /\ fails => faults /\ admitted
                      /\ enqueued => FreeSlots # {}
                      /\ jobs' = IF enqueued THEN Insert(kind, vin, op) ELSE jobs
                      /\ reqs' = [reqs EXCEPT ![r] =
                            [q EXCEPT !.pc = "save",
                                      !.statuses = Append(@, SubmitEntry(kind, vin, dbVin,
                                                                         admitted, enqueued))]]
              /\ UNCHANGED <<vins, seq, allocated, chain, m, settings, faults, resp, cache, consumer, enrollmentChannel, opsConsumer, key>>
           \/ /\ q.pc = "save" /\ q.kind = kind /\ q.list = list
              /\ vins' = InsertOrUpdateVin(vins, vin, dbVin)
              /\ IF ~UniqueTokenIds(vins, vin, dbVin)
                 THEN resp' = response(500, <<>>) /\ reqs' = [reqs EXCEPT ![r] = NoReq]
                 ELSE IF q.i = Len(validVins)
                 THEN resp' = response(200, q.statuses) /\ reqs' = [reqs EXCEPT ![r] = NoReq]
                 ELSE /\ resp' = resp
                      /\ reqs' = [reqs EXCEPT ![r] = [q EXCEPT !.pc = "insert", !.i = @ + 1]]
              /\ UNCHANGED <<jobs, seq, allocated, chain, m, settings, faults, cache, consumer, enrollmentChannel, opsConsumer, key>>

\* the entries of GET /v1/vehicle/verify for validVins
RECURSIVE VerificationStatuses(_)
VerificationStatuses(validVins) ==
    IF validVins = <<>> THEN <<>>
    ELSE LET vin == Head(validVins)
             entry == IF vin \in DOMAIN vins
                      THEN VinStatus(vin, GetVerificationStatus(vins[vin].status),
                                     GetDetailedStatus(vins[vin].status))
                      ELSE VinStatus(vin, "Unknown", "Unknown")
         IN <<entry>> \o VerificationStatuses(Tail(validVins))

GetVerificationStatusForVins(list) ==
    /\ resp' = [method |-> "GET", kind |-> "verify", list |-> list,
                code |-> IF ValidationCode(list) = 400 THEN 400 ELSE 200,
                statuses |-> IF ValidationCode(list) = 400 THEN <<>>
                             ELSE VerificationStatuses(ValidVins(list))]
    /\ UNCHANGED <<vins, jobs, reqs, seq, allocated, chain, m, settings, faults, cache, consumer, enrollmentChannel, opsConsumer, key>>

\* the typed data GetMintDataForVins prepares for a row, "refused" when the
\* row has both tokens and its connection has not failed
MintTypedData(dbVin) ==
    IF ~Valid(dbVin.vtid) THEN "MintVehicleWithDeviceDefinition"
    ELSE IF ~Valid(dbVin.stid) THEN "MintSyntheticDevice"
    ELSE IF StringOf(dbVin.conn) # "failed" THEN "refused"
    ELSE ""

\* GET /v1/vehicle/mint, a step for each of its two queries: the checks of
\* the request and the query of the rows in the status range; then the query
\* of the minted rows, whose rows with a failed connection are appended, and
\* the loop over the rows loaded.  wallet: the token of the request carries
\* ethereum_address; failing: the positions of the loaded rows whose device
\* definition the identity API fails to return; parses: the token id of the
\* settings is a decimal number.
GetMintDataForVins(list) ==
    \E r \in 1..MaxReqs :
        LET q == reqs[r]
            validVins == ValidVins(list)
            response(code, statuses) ==
                [method |-> "GET", kind |-> "onboard", list |-> list, code |-> code,
                 statuses |-> statuses]
            rows(f) == [k \in 1..Len(f) |-> [vin |-> f[k], row |-> vins[f[k]]]]
        IN \/ /\ \A x \in 1..MaxReqs : reqs[x].pc = "idle"
              /\ \E wallet \in BOOLEAN,
                    inRange \in AnyOrder(GetVehiclesByVinsAndOnboardingStatusRange(
                                  validVins, OnboardingStatusVendorValidationSuccess,
                                  OnboardingStatusMintFailure,
                                  {OnboardingStatusBurnSDSuccess,
                                   OnboardingStatusBurnVehicleSuccess})) :
                   IF ~wallet
                   THEN resp' = response(500, <<>>) /\ reqs' = reqs
                   ELSE IF ValidationCode(list) = 400
                   THEN resp' = response(400, <<>>) /\ reqs' = reqs
                   ELSE IF validVins = <<>>
                   THEN resp' = response(200, <<>>) /\ reqs' = reqs
                   ELSE /\ resp' = resp
                        /\ reqs' = [reqs EXCEPT ![r] =
                             [NoReq EXCEPT !.kind = "onboard", !.list = list,
                                           !.pc = "mintedVins", !.dbVins = rows(inRange)]]
              /\ UNCHANGED <<vins, jobs, seq, allocated, chain, m, settings, faults, cache, consumer, enrollmentChannel, opsConsumer, key>>
           \/ /\ q.pc = "mintedVins" /\ q.list = list
              /\ \E vendorFailedMintedVins \in
                       AnyOrder({u \in GetVehiclesByVinsAndOnboardingStatus(
                                         validVins, OnboardingStatusMintSuccess) :
                                   StringOf(vins[u].conn) = "failed"}),
                    parses \in BOOLEAN :
                   LET dbVins == q.dbVins \o rows(vendorFailedMintedVins)
                       n == Len(dbVins)
                   IN \E failing \in SUBSET (1..n) :
                        LET outcome(i) ==
                                IF i \in failing THEN 500
                                ELSE IF MintTypedData(dbVins[i].row) = "MintSyntheticDevice"
                                          /\ ~parses
                                THEN 500
                                ELSE IF MintTypedData(dbVins[i].row) = "refused" THEN 400
                                ELSE 200
                            stops == {i \in 1..n : outcome(i) # 200}
                            first == CHOOSE i \in stops : \A j \in stops : i <= j
                            code == IF n # Len(validVins) THEN 400
                                    ELSE IF stops = {} THEN 200
                                    ELSE outcome(first)
                        IN /\ ~faults => failing = {}
                           /\ code # 500 => failing = {} /\ parses
                           /\ resp' = response(code,
                                        IF code # 200 THEN <<>>
                                        ELSE [i \in 1..n |->
                                                VinStatus(dbVins[i].vin, "",
                                                          MintTypedData(dbVins[i].row))])
                           /\ reqs' = [reqs EXCEPT ![r] = NoReq]
              /\ UNCHANGED <<vins, jobs, seq, allocated, chain, m, settings, faults, cache, consumer, enrollmentChannel, opsConsumer, key>>

(***************************************************************************)
(* The handlers on one request, for every row the VIN of the request may   *)
(* have.                                                                   *)
(***************************************************************************)
\* the VINs a request may carry: two valid ones, one with a letter outside the
\* alphabet, the empty one, a valid one behind a blank, a valid one between a
\* form feed and a no-break space, and two with the two-byte character
\* U+00E9: one of 17 characters (18 bytes), one of 16 characters (17 bytes)
RequestVins ==
    {<<"1", "F", "T", "F", "W", "1", "E", "T", "5",
     "D", "F", "A", "1", "2", "3", "4", "5">>,
     <<"A", "B", "C", "D", "E", "F", "G", "1", "2",
     "3", "4", "5", "6", "7", "8", "1", "1">>,
     <<"1", "F", "T", "F", "W", "1", "E", "T", "5",
     "D", "F", "A", "1", "2", "3", "4", "I">>,
     <<>>,
     <<" ", "1", "F", "T", "F", "W", "1", "E", "T",
     "5", "D", "F", "A", "1", "2", "3", "4", "5">>,
     <<"\f", "A", "B", "C", "D", "E", "F", "G", "1", "2",
     "3", "4", "5", "6", "7", "8", "1", "1", "U+00A0">>,
     <<"1", "F", "T", "F", "W", "1", "E", "T", "5",
     "D", "F", "A", "1", "2", "3", "4", "U+00E9">>,
     <<"1", "F", "T", "F", "W", "1", "E", "T", "5",
     "D", "F", "A", "1", "2", "3", "U+00E9">>}

VinLists == UNION {[1..n -> RequestVins] : n \in 0..MaxList}

\* connection_status as the operations stream leaves it
ConnectionStatuses == {{}, {"succeeded"}, {"failed"}}

\* the tokens of a row: none, the vehicle only, the vehicle and its SD
TokenShapes ==
    {[vtid |-> {}, stid |-> {}, widx |-> {}],
     [vtid |-> {1}, stid |-> {}, widx |-> {}],
     [vtid |-> {1}, stid |-> {1}, widx |-> {1}]}

GateRows ==
    {[NewVin(status) EXCEPT !.conn = conn, !.vtid = t.vtid, !.stid = t.stid,
                            !.widx = t.widx] :
        status \in StatusCodes, conn \in ConnectionStatuses, t \in TokenShapes}

\* one VIN with any row, or no row at all; every service answers
InitGates ==
    /\ vins \in {[u \in {} |-> NewVin(0)]} \cup {[u \in OneVin |-> row] : row \in GateRows}
    /\ jobs = [s \in 1..MaxJobs |-> NoJob]
    /\ reqs = [r \in 1..MaxReqs |-> NoReq]
    /\ seq = FirstSeq
    /\ allocated = <<>>
    /\ chain = [veh |-> {}, sd |-> {}, nveh |-> 0, nsd |-> 0]
    /\ m = [k \in TxKinds |-> FALSE]
    /\ settings \in {c \in Settings : c.EnableVendorCapabilityCheck /\ c.EnableVendorConnection}
    /\ faults = FALSE
    /\ resp = NoResp
    /\ cache = [u \in {} |-> NewVin(0)]
    /\ consumer = NoConsumer
    /\ enrollmentChannel = 0
    /\ opsConsumer = NoOperation
    /\ key = NewMaster("seed-a")

\* the POST requests a step can belong to: any handler on any of the lists
\* when no request is in flight, otherwise the requests in flight
Requests(lists) ==
    IF \A r \in 1..MaxReqs : reqs[r].pc = "idle" THEN Kinds \X lists
    ELSE {<<reqs[r].kind, reqs[r].list>> : r \in {x \in 1..MaxReqs : reqs[x].pc # "idle"}}

\* the requests that name at most one VIN
ShortLists == {list \in VinLists : Len(list) <= 1}

\* the first request of a run, naming at most one VIN
NextGates ==
    \/ resp = NoResp /\ \E c \in Requests(ShortLists) : PostSubmit(c[1], c[2])
    \/ /\ resp = NoResp /\ \A r \in 1..MaxReqs : reqs[r].pc = "idle"
       /\ \E list \in ShortLists : GetVerificationStatusForVins(list)

SpecGates == InitGates /\ [][NextGates]_vars

\* the rows GET verify reads for the two VINs: the first without a row or at
\* any status, the second without a row or at one of the statuses 0, 21, 22
\* and 53
StatusRows ==
    {[u \in S |-> NewVin(st[u])] :
        st \in [Vins -> StatusCodes], S \in SUBSET Vins}

InitStatuses ==
    /\ vins \in {t \in StatusRows :
                   \A u \in DOMAIN t \ OneVin :
                      t[u].status \in {OnboardingStatusSubmitUnknown,
                                       OnboardingStatusVendorValidationPending,
                                       OnboardingStatusVendorValidationFailure,
                                       OnboardingStatusMintSuccess}}
    /\ jobs = [s \in 1..MaxJobs |-> NoJob]
    /\ reqs = [r \in 1..MaxReqs |-> NoReq]
    /\ seq = FirstSeq
    /\ allocated = <<>>
    /\ chain = [veh |-> {}, sd |-> {}, nveh |-> 0, nsd |-> 0]
    /\ m = [k \in TxKinds |-> FALSE]
    /\ settings \in {c \in Settings : c.EnableVendorCapabilityCheck /\ c.EnableVendorConnection}
    /\ faults = FALSE
    /\ resp = NoResp
    /\ cache = [u \in {} |-> NewVin(0)]
    /\ consumer = NoConsumer
    /\ enrollmentChannel = 0
    /\ opsConsumer = NoOperation
    /\ key = NewMaster("seed-a")

\* the first GET verify of a run, for any list of VINs
NextStatuses ==
    \E list \in VinLists : resp = NoResp /\ GetVerificationStatusForVins(list)

SpecStatuses == InitStatuses /\ [][NextStatuses]_vars

\* rows of the stages a VIN rests at: unverified, verified, minted, minted with a
\* failed connection, disconnected, deleted
RestingRows ==
    {row \in GateRows :
        \/ row.status \in {OnboardingStatusSubmitUnknown,
                           OnboardingStatusVendorValidationSuccess,
                           OnboardingStatusBurnVehicleSuccess}
             /\ row.conn = {} /\ row.vtid = {}
        \/ row.status = OnboardingStatusMintSuccess /\ row.conn # {} /\ row.stid # {}
        \/ row.status = OnboardingStatusBurnSDSuccess
             /\ row.conn = {} /\ row.vtid # {} /\ row.stid = {}}

InitLists ==
    /\ InitGates
    /\ \A u \in DOMAIN vins : vins[u] \in RestingRows

\* the first request of a run, with any VIN list
NextLists ==
    \/ resp = NoResp /\ \E c \in Requests(VinLists) : PostSubmit(c[1], c[2])
    \/ /\ resp = NoResp /\ \A r \in 1..MaxReqs : reqs[r].pc = "idle"
       /\ \E list \in VinLists : GetVerificationStatusForVins(list)

SpecLists == InitLists /\ [][NextLists]_vars

\* one VIN minted and minted again after the vendor reported a failed
\* enrollment, the operations stream running, and the first GET
\* /v1/vehicle/mint of the run
NextMintData ==
    \/ \E vin \in OneVin : SubmitIdle("onboard", vin)
    \/ FirstMint
    \/ Operations(OneVin, {"failed"}, OneVin)
    \/ \E list \in {l \in ShortLists : l # <<>> /\ Text(l[1]) \in OneVin} :
         resp = NoResp /\ GetMintDataForVins(list)

SpecMintData == InitServing /\ [][NextMintData]_vars

\* one VIN minted, disconnected and deleted by whole requests, one job after
\* the other, services failing
NextRequests ==
    \/ \E kind \in TxKinds, list \in {l \in ShortLists : l # <<>> /\ Text(l[1]) \in OneVin} :
         /\ (\A r \in 1..MaxReqs : reqs[r].pc = "idle") => FreeSlots = 1..MaxJobs
         /\ PostSubmit(kind, list)
    \/ TxWorkers

SpecRequests == InitFailing /\ [][NextRequests]_vars

\* the enrollment messages of the operations stream for the first VIN
OperationMessages == OperationMessagesOf(OneVin, OperationStatuses, {"veh-1"})

\* one VIN minted, and the enrollment messages of the vendor
NextOperations ==
    \/ \E vin \in OneVin : SubmitIdle("onboard", vin)
    \/ FirstMint
    \/ Operations(OneVin, OperationStatuses, {"veh-1"})

SpecOperations == InitServing /\ [][NextOperations]_vars

\* one VIN submitted for verification, and the operations consumer handling
\* every enrollment message the vendor sends for it
NextChannel ==
    \/ \E vin \in OneVin : SubmitIdle("verify", vin)
    \/ \E operation \in OperationMessagesOf(OneVin, {"inQueue", "succeeded"}, {"veh-1"}) :
         ConsumeOperation(operation)

SpecChannel == InitServing /\ [][NextChannel]_vars

(***************************************************************************)
(* The SD wallets (internal/service/sd_wallets.go).  An index is a uint32  *)
(* written <<hi, lo>>, for hi * 2^16 + lo.                                 *)
(***************************************************************************)
\* hdkeychain.HardenedKeyStart, 2^31
HardenedKeyStart == <<32768, 0>>

\* ExtendedKey.Derive: the child of a key with number i, a new key; the key
\* it is called on is left as it is
Derive(k, i) == [k EXCEPT !.path = Append(@, i)]

\* a faulty variant of getPrivateKey: the service keeps the child it derived
\* as its key
getPrivateKeyInPlace(k, index) ==
    IF index[1] >= HardenedKeyStart[1]
    THEN [err |-> TRUE, pk |-> NewMaster(""), key |-> k]
    ELSE LET childKey == Derive(k, <<(HardenedKeyStart[1] + index[1]) % 65536, index[2]>>)
         IN [err |-> FALSE, pk |-> childKey, key |-> childKey]

\* SDWalletsService.getPrivateKey on the service key k: an error for an index
\* from 2^31 on, or the private key of the hardened child of k with number
\* HardenedKeyStart + index in 32 bits; key is the service key after the call.
\* (Derive fails for one child in 2^127 and the process then exits;
\* ECPrivKey and ToECDSA do not fail on a private key.)
getPrivateKey(k, index) ==
    IF index[1] >= HardenedKeyStart[1]
    THEN [err |-> TRUE, pk |-> NewMaster(""), key |-> k]
    ELSE LET childKey == Derive(k, <<(HardenedKeyStart[1] + index[1]) % 65536, index[2]>>)
         IN [err |-> FALSE, pk |-> childKey, key |-> k]

\* the number of calls of GetAddress in a run
MaxCalls == 3

\* crypto.PubkeyToAddress: the address of the public key of a private key
PubkeyToAddress(pk) == [pub |-> pk]

\* common.Address{}, returned with an error
ZeroAddress == [pub |-> NewMaster("")]

\* SDWalletsService.GetAddress, called for index by any of its callers; resp
\* keeps the indices of the calls so far and what each call returned
GetAddress(index) ==
    LET pk == getPrivateKey(key, index)
        address == IF pk.err THEN [err |-> TRUE, address |-> ZeroAddress]
                   ELSE [err |-> FALSE, address |-> PubkeyToAddress(pk.pk)]
    IN /\ Len(resp.list) < MaxCalls
       /\ resp' = [method |-> "CALL", kind |-> "GetAddress",
                   list |-> Append(resp.list, index), code |-> 0,
                   statuses |-> Append(resp.statuses, address)]
       /\ key' = pk.key
       /\ UNCHANGED <<vins, jobs, reqs, seq, allocated, chain, m, settings, faults, cache, consumer, enrollmentChannel, opsConsumer>>

\* the service as NewSDWalletsService leaves it, for either seed
InitWallet ==
    /\ vins = [u \in {} |-> NewVin(0)]
    /\ jobs = [s \in 1..MaxJobs |-> NoJob]
    /\ reqs = [r \in 1..MaxReqs |-> NoReq]
    /\ seq = FirstSeq
    /\ allocated = <<>>
    /\ chain = [veh |-> {}, sd |-> {}, nveh |-> 0, nsd |-> 0]
    /\ m = [k \in TxKinds |-> FALSE]
    /\ settings = Enabled
    /\ faults = FALSE
    /\ resp = NoResp
    /\ cache = [u \in {} |-> NewVin(0)]
    /\ consumer = NoConsumer
    /\ enrollmentChannel = 0
    /\ opsConsumer = NoOperation
    /\ key \in {NewMaster(seed) : seed \in SDWalletsSeeds}

\* the calls of GetAddress, for the indices 0, 1, 2^31 - 1, 2^31 and 2^32 - 1
NextWallet ==
    \E index \in {<<0, 0>>, <<0, 1>>, <<32767, 65535>>, <<32768, 0>>, <<65535, 65535>>} :
        GetAddress(index)

SpecWallet == InitWallet /\ [][NextWallet]_vars

(***************************************************************************)
(* Telemetry (OracleService.HandleDeviceByVIN).  A token id of a row here  *)
(* is a 64-bit value written <<hi, lo>>, for hi * 2^32 + lo.               *)
(***************************************************************************)
\* null.Int64.Int64: the value of the column, 0 when it is NULL; a token id
\* the registry of this model minted is below 2^32 and written n, for <<0, n>>
Int64Of(n) ==
    IF n = {} THEN <<0, 0>>
    ELSE IF \E k \in 0..MaxTok : ToString(Val(n)) = ToString(k) THEN <<0, Val(n)>>
    ELSE Val(n)

\* the conversion uint32(x) of an int64: its low 32 bits
uint32(x) == x[2]

\* convert.SetProducerAndSubject: the producer and subject of the event; a
\* DID is <<contract, token id>>, the empty subject is <<>>
SetProducerAndSubject(veh) ==
    LET vehTokenId == uint32(Int64Of(veh.vtid))
    IN [producer |-> <<"SyntheticNftAddress", uint32(Int64Of(veh.stid))>>,
        subject |-> IF vehTokenId # 0 THEN <<"VehicleNftAddress", vehTokenId>>
                    ELSE <<>>]

\* the HTTP statuses the ingest endpoint answers with
IngestStatuses == {200, 201, 400, 401, 403, 404, 429, 500, 503}

\* ClientWrapper.ExecuteRequest of the shared HTTP library, for an answer of
\* the endpoint: the response, and an error for every status above 299
ExecuteRequest(status) == [StatusCode |-> status, err |-> status > 299]

\* a faulty variant of SendToDimoNode: 400 is returned as an error too
SendToDimoNodeStrict(status) == [statusCode |-> status, err |-> ExecuteRequest(status).err]

\* dimoNodeService.SendToDimoNode: the status code and the error it returns;
\* status code 0 stands for the "" returned with an unhandled error
SendToDimoNode(status) ==
    LET res == ExecuteRequest(status)
    IN IF res.err
       THEN IF res.StatusCode \in {401, 403} THEN [statusCode |-> res.StatusCode, err |-> TRUE]
            ELSE IF res.StatusCode = 404 THEN [statusCode |-> res.StatusCode, err |-> TRUE]
            ELSE IF res.StatusCode >= 500 /\ res.StatusCode < 600
            THEN [statusCode |-> res.StatusCode, err |-> TRUE]
            ELSE IF res.StatusCode = 400 THEN [statusCode |-> res.StatusCode, err |-> FALSE]
            ELSE [statusCode |-> 0, err |-> TRUE]
       ELSE [statusCode |-> res.StatusCode, err |-> FALSE]

\* OracleService.HandleSendToDIS: the error it returns and the increments of
\* the success and the failed counter
HandleSendToDIS(status) ==
    LET sent == SendToDimoNode(status)
    IN IF sent.err THEN [err |-> TRUE, success |-> 0, failed |-> 1]
       ELSE IF sent.statusCode = 400 THEN [err |-> FALSE, success |-> 0, failed |-> 1]
       ELSE [err |-> FALSE, success |-> 1, failed |-> 0]

\* one telemetry message naming vin.  valid: the message is a []byte that
\* parses as a CloudEvent with data and type, its data is JSON with a VIN, and
\* its signals pass validateSignals; any other message makes the handler
\* return an error before it reads the cache or the table, and no counter
\* moves.  The response has code 1 when the handler returns an error and 0
\* when it returns nil, lists the events handed to SendToDimoNode, and carries
\* the answer of the ingest endpoint (0: not called) and the increments of the
\* two counters.
HandleDeviceByVIN(vin) ==
    LET found == vin \in DOMAIN cache
        response(valid, err, events, ingest, success, failed) ==
            [method |-> "EVENT", kind |-> "telemetry", list |-> <<vin>>, valid |-> valid,
             code |-> IF err THEN 1 ELSE 0, statuses |-> events,
             ingest |-> ingest, success |-> success, failed |-> failed]
    IN /\ \E valid \in BOOLEAN :
            IF ~valid
            THEN cache' = cache /\ resp' = response(FALSE, TRUE, <<>>, 0, 0, 0)
            ELSE IF ~found /\ vin \notin DOMAIN vins
            THEN cache' = cache /\ resp' = response(TRUE, TRUE, <<>>, 0, 0, 1)
            ELSE LET vehicle == IF found THEN cache[vin] ELSE vins[vin]
                 IN /\ cache' = IF found THEN cache
                                 ELSE [u \in DOMAIN cache \cup {vin} |->
                                         IF u = vin THEN vehicle ELSE cache[u]]
                    /\ IF Int64Of(vehicle.vtid) = <<0, 0>>
                       THEN resp' = response(TRUE, FALSE, <<>>, 0, 0, 0)
                       ELSE \E status \in IngestStatuses :
                              LET out == HandleSendToDIS(status)
                              IN /\ ~faults => status = 200
                                 /\ resp' = response(TRUE, out.err,
                                                     <<SetProducerAndSubject(vehicle)>>,
                                                     status, out.success, out.failed)
       /\ UNCHANGED <<vins, jobs, reqs, seq, allocated, chain, m, settings, faults, enrollmentChannel, opsConsumer, key>>

\* an entry of the cache reaches its expiration time
Expire(vin) ==
    /\ vin \in DOMAIN cache
    /\ cache' = [u \in DOMAIN cache \ {vin} |-> cache[u]]
    /\ UNCHANGED <<vins, jobs, reqs, seq, allocated, chain, m, settings, faults, resp, consumer, enrollmentChannel, opsConsumer, key>>

\* no row, or one row for the first VIN with token ids among NULL, 0, 1,
\* 2^32 and 2^32 + 1
InitTelemetry ==
    /\ LET TokenIds64 == {{}} \cup {{<<hi, lo>>} : hi \in 0..1, lo \in 0..1}
       IN \E rows \in SUBSET OneVin, vtid \in TokenIds64, stid \in TokenIds64 :
            vins = [u \in rows |-> [NewVin(OnboardingStatusMintSuccess)
                                      EXCEPT !.vtid = vtid, !.stid = stid]]
    /\ jobs = [s \in 1..MaxJobs |-> NoJob]
    /\ reqs = [r \in 1..MaxReqs |-> NoReq]
    /\ seq = FirstSeq
    /\ allocated = <<>>
    /\ chain = [veh |-> {}, sd |-> {}, nveh |-> 0, nsd |-> 0]
    /\ m = [k \in TxKinds |-> FALSE]
    /\ settings = Enabled
    /\ faults \in BOOLEAN
    /\ resp = NoResp
    /\ cache = [u \in {} |-> NewVin(0)]
    /\ consumer = NoConsumer
    /\ enrollmentChannel = 0
    /\ opsConsumer = NoOperation
    /\ key = NewMaster("seed-a")

\* the number of messages of the telemetry partition
MaxOffset == 3

\* session.MarkMessage of the consumer group library: the marked offset of
\* the partition moves to the offset after the message, never back
MarkMessage(c, offset) == [c EXCEPT !.marked = IF offset + 1 > @ THEN offset + 1 ELSE @]

\* one turn of the loop of MessageHandlerUnbuffered.ConsumeClaim, for the next
\* message of the partition, an event for vin
ConsumeClaim(vin) ==
    LET offset == consumer.next
    IN /\ offset < MaxOffset
       /\ HandleDeviceByVIN(vin)
       /\ consumer' = IF resp'.code = 1
                       THEN [consumer EXCEPT !.next = offset + 1, !.failed = @ \cup {offset}]
                       ELSE [MarkMessage(consumer, offset) EXCEPT !.next = offset + 1]

NextTelemetry ==
    \/ \E vin \in Vins : ConsumeClaim(vin)
    \/ \E vin \in Vins : Expire(vin)

SpecTelemetry == InitTelemetry /\ [][NextTelemetry]_vars

\* one VIN minted and disconnected one job after the other, every service
\* answering, while the telemetry consumer handles events for the VIN
NextForward ==
    \/ \E vin \in OneVin, kind \in {"onboard", "disconnect"} : SubmitIdle(kind, vin)
    \/ OnboardingWorker
    \/ DisconnectWorker
    \/ \E s \in 1..MaxJobs : Lock(s)
    \/ \E vin \in OneVin : ConsumeClaim(vin)
    \/ \E vin \in OneVin : Expire(vin)

SpecForward == InitServing /\ [][NextForward]_vars

\* the jobs of a kind the queue holds for a VIN
JobsOf(queue, kind, vin) ==
    {s \in 1..MaxJobs : queue[s].kind = kind /\ queue[s].vin = vin}

\* the admission rule of POST /v1/vehicle/mint for status s and connection_status c
MintAdmits(s, c) ==
    \/ IsMinted(s) /\ c = "failed"
    \/ /\ ~IsMinted(s) \/ IsDisconnected(s)
       /\ IsFailure(s) \/ (~IsMintPending(s) /\ ~IsDisconnectPending(s))

\* C12: a POST mint whose list passes validation enqueues an onboard job for a
\* VIN of the list exactly when the rule above admits the status and the
\* connection_status of its row (30 and none for a VIN without a row).
MintGateFollowsRule ==
    [][resp'.method = "POST" /\ resp'.kind = "onboard" /\ resp'.code = 200
         => \A i \in 1..Len(resp'.list) :
              LET vin == Text(TrimSpace(resp'.list[i]))
                  dbVin == LoadedVin("onboard", vin)
              IN JobsOf(jobs', "onboard", vin) # {}
                   <=> MintAdmits(dbVin.status, StringOf(dbVin.conn))]_vars

\* a minted row whose connection failed got a new onboard job
MintGateAdmitted ==
    /\ resp.method = "POST" /\ resp.kind = "onboard" /\ resp.code = 200
    /\ \E vin \in DOMAIN vins :
         /\ JobsOf(jobs, "onboard", vin) # {}
         /\ vins[vin].status = OnboardingStatusMintSuccess
         /\ vins[vin].conn = {"failed"}

\* C13: a POST verify whose list passes validation enqueues a verify job for a
\* VIN of the list exactly when the VIN has no row or its status is not verified
\* and is a failure or not pending; when it enqueues, the entry of the VIN is
\* Pending / VerificationSubmitPending and the VIN has a row afterwards.
VerifyGateFollowsRule ==
    [][resp'.method = "POST" /\ resp'.kind = "verify" /\ resp'.code = 200
         => \A i \in 1..Len(resp'.list) :
              LET vin == Text(TrimSpace(resp'.list[i]))
                  s == vins[vin].status
                  enqueued == JobsOf(jobs', "verify", vin) # {}
              IN /\ enqueued <=> \/ vin \notin DOMAIN vins
                                 \/ ~IsVerified(s) /\ (IsFailure(s) \/ ~IsPending(s))
                 /\ enqueued => /\ resp'.statuses[i]
                                     = VinStatus(vin, "Pending", "VerificationSubmitPending")
                                /\ vin \in DOMAIN vins']_vars

\* a VIN without a row got a verify job, and has a row now
VerifyGateAdmitted ==
    /\ resp.method = "POST" /\ resp.kind = "verify" /\ resp.code = 200
    /\ \E vin \in DOMAIN vins :
         /\ JobsOf(jobs, "verify", vin) # {}
         /\ vins[vin] = NewVin(OnboardingStatusSubmitUnknown)
         /\ resp.statuses = <<VinStatus(vin, "Pending", "VerificationSubmitPending")>>

\* C14: a request whose VIN list names the same VIN at two positions, next to
\* each other or not, is answered 400 and enqueues no job.
DuplicatesRejected ==
    [][(\E i, j \in 1..Len(resp'.list) : i < j /\ resp'.list[i] = resp'.list[j])
         => resp'.code = 400 /\ jobs' = jobs]_vars

\* the VIN rule: outside test mode 17 characters, all of the VIN alphabet; in
\* test mode a length of 17, in the bytes of the string
VinRule(cs) ==
    IF settings.EnableVendorTestMode
    THEN len(cs) = 17
    ELSE Len(cs) = 17 /\ \A i \in 1..17 : cs[i] \in VinAlphabet

\* C15 as stated, the rule taken on the VIN as the request carries it: a
\* request with a VIN that breaks the VIN rule is answered 400, enqueues no
\* job and leaves every row as it was; a request of one VIN that keeps the rule
\* is not answered 400.
UntrimmedVinRejectsRequest ==
    [][resp'.method # ""
         => /\ (\E i \in 1..Len(resp'.list) : ~VinRule(resp'.list[i]))
                  => resp'.code = 400 /\ jobs' = jobs /\ vins' = vins
            /\ Len(resp'.list) = 1 /\ VinRule(resp'.list[1])
                  => resp'.code = 200]_vars

\* C15: the rule is taken on the VIN without the white space around it.  A
\* request with a VIN that, trimmed, breaks the VIN rule is answered 400,
\* enqueues no job and leaves every row as it was, the rows of the valid VINs
\* of the list included; a request of one VIN that keeps the rule is not
\* answered 400.
InvalidVinRejectsRequest ==
    [][resp'.method # ""
         => /\ (\E i \in 1..Len(resp'.list) : ~VinRule(TrimSpace(resp'.list[i])))
                  => resp'.code = 400 /\ jobs' = jobs /\ vins' = vins
            /\ Len(resp'.list) = 1 /\ VinRule(TrimSpace(resp'.list[1]))
                  => resp'.code = 200]_vars

\* a POST that named a valid VIN and an invalid one was answered 400 and
\* enqueued nothing
InvalidVinRejected ==
    /\ resp.method = "POST" /\ resp.code = 400
    /\ \E i, j \in 1..Len(resp.list) :
         VinRule(TrimSpace(resp.list[i])) /\ ~VinRule(TrimSpace(resp.list[j]))
    /\ FreeSlots = 1..MaxJobs

\* the verification view of a status, as a rule on the number
VerificationView(s) ==
    IF s >= 23 THEN "Success"
    ELSE IF s % 10 = 2 THEN "Failure"
    ELSE IF 0 < s /\ s < 53 THEN "Pending"
    ELSE "Unknown"

\* C16: GET /v1/vehicle/verify with a non-empty list of valid VINs, no two the
\* same, answers 200 with one entry per VIN of the list, in the order of the
\* list: Unknown/Unknown for a VIN without a row, otherwise the name of the
\* row's status as details and its verification view as status.
VerifyStatusListsEveryVin ==
    [][(/\ resp'.method = "GET" /\ resp'.kind = "verify"
        /\ resp'.list # <<>>
        /\ \A i \in 1..Len(resp'.list) : VinRule(TrimSpace(resp'.list[i]))
        /\ \A i, j \in 1..Len(resp'.list) :
             (i < j) => (TrimSpace(resp'.list[i]) # TrimSpace(resp'.list[j])))
         => /\ resp'.code = 200
            /\ Len(resp'.statuses) = Len(resp'.list)
            /\ \A i \in 1..Len(resp'.list) :
                 LET vin == Text(TrimSpace(resp'.list[i]))
                 IN resp'.statuses[i] =
                      IF vin \in DOMAIN vins
                      THEN VinStatus(vin, VerificationView(vins[vin].status),
                                     statusToString[vins[vin].status])
                      ELSE VinStatus(vin, "Unknown", "Unknown")]_vars

\* a GET for two VINs, the second one of the fleet first, answered with an
\* entry for each in that order: Unknown for the VIN without a row, then the
\* view of a failed verification
VerifyStatusReported ==
    /\ resp.method = "GET" /\ resp.code = 200
    /\ Len(resp.list) = 2 /\ Len(resp.statuses) = 2
    /\ resp.statuses[1].vin = "ABCDEFG1234567811"
    /\ resp.statuses[1].vin \notin DOMAIN vins
    /\ resp.statuses[1].status = "Unknown" /\ resp.statuses[1].details = "Unknown"
    /\ resp.statuses[2].vin = "1FTFW1ET5DFA12345"
    /\ resp.statuses[2].vin \in DOMAIN vins
    /\ vins[resp.statuses[2].vin].status = OnboardingStatusVendorValidationFailure
    /\ resp.statuses[2].status = "Failure"
    /\ resp.statuses[2].details = "VendorValidationFailure"

\* C17: GET /v1/vehicle/mint with a non-empty list of valid VINs, no two the
\* same, answers 200 with one entry per VIN when every VIN of the list has a
\* row whose status is in [23, 52], or is 83 or 103, or is 53 with
\* connection_status "failed", and 400 otherwise.  The rows are those stored
\* when it answers; a request whose rows were written after its first query
\* read them is left aside, and so is the answer 500.
MintDataServedForMintable ==
    [][(/\ resp' # resp
        /\ resp'.method = "GET" /\ resp'.kind = "onboard"
        /\ resp'.code # 500
        /\ \A r \in 1..MaxReqs :
             reqs[r].pc = "mintedVins"
               => /\ \A k \in 1..Len(reqs[r].dbVins) :
                       /\ reqs[r].dbVins[k].vin \in DOMAIN vins
                       /\ vins[reqs[r].dbVins[k].vin] = reqs[r].dbVins[k].row
                  /\ \A u \in GetVehiclesByVinsAndOnboardingStatusRange(
                               ValidVins(reqs[r].list),
                               OnboardingStatusVendorValidationSuccess,
                               OnboardingStatusMintFailure,
                               {OnboardingStatusBurnSDSuccess,
                                OnboardingStatusBurnVehicleSuccess}) :
                       \E k \in 1..Len(reqs[r].dbVins) : reqs[r].dbVins[k].vin = u
        /\ resp'.list # <<>>
        /\ \A i \in 1..Len(resp'.list) : VinRule(TrimSpace(resp'.list[i]))
        /\ \A i, j \in 1..Len(resp'.list) :
             (i < j) => (TrimSpace(resp'.list[i]) # TrimSpace(resp'.list[j])))
         => IF \A i \in 1..Len(resp'.list) :
                 LET vin == Text(TrimSpace(resp'.list[i]))
                     status == vins[vin].status
                 IN /\ vin \in DOMAIN vins
                    /\ \/ status >= 23 /\ status <= 52
                       \/ status \in {83, 103}
                       \/ status = 53 /\ StringOf(vins[vin].conn) = "failed"
            THEN resp'.code = 200 /\ Len(resp'.statuses) = Len(resp'.list)
            ELSE resp'.code = 400]_vars

\* C18: POST /v1/vehicle/delete naming a VIN whose row has a synthetic_token_id
\* is answered 400 and enqueues no job.  The row is the one the request loaded
\* and that is still stored when it answers; the answer 500 is left aside.
DeleteWithSyntheticTokenRejected ==
    [][(/\ resp' # resp
        /\ resp'.method = "POST" /\ resp'.kind = "delete" /\ resp'.code # 500
        /\ \E i \in 1..Len(resp'.list) :
             LET vin == Text(TrimSpace(resp'.list[i]))
             IN /\ vin \in DOMAIN vins /\ Valid(vins[vin].stid)
                /\ \A r \in 1..MaxReqs : \A k \in 1..Len(reqs[r].dbVins) :
                     reqs[r].dbVins[k].vin = vin
                       => reqs[r].dbVins[k].row = vins[vin])
         => /\ resp'.code = 400
            /\ \A s \in 1..MaxJobs : jobs'[s].kind # "delete"]_vars

\* C19: a register request for a VIN whose row holds another vehicle_token_id
\* is answered 409 and changes no row; no register request changes a
\* vehicle_token_id a row holds; a register request for a VIN without a row is
\* answered 200 and creates the row.
RegisterKeepsTokenAndCreatesRow ==
    [][resp' # resp /\ resp'.kind = "register"
         => LET vin == resp'.list[1]
                tokenID == resp'.token_id
            IN /\ (vin \in DOMAIN vins /\ Valid(vins[vin].vtid)
                     /\ Val(vins[vin].vtid) # tokenID)
                    => resp'.code = 409 /\ vins' = vins
               /\ \A u \in DOMAIN vins :
                    Valid(vins[u].vtid)
                      => u \in DOMAIN vins' /\ vins'[u].vtid = vins[u].vtid
               /\ vin \notin DOMAIN vins
                    => resp'.code = 200 /\ vin \in DOMAIN vins']_vars

\* C20: a telemetry event with a valid envelope for a VIN without a row makes
\* the handler return an error and forwards nothing; for a row whose
\* vehicle_token_id is NULL or 0 the handler returns nil and forwards nothing;
\* for any other row one event is forwarded, its producer carrying the 64-bit
\* synthetic_token_id of the row and its subject the 64-bit vehicle_token_id
\* of the row.
TelemetryCarriesStoredTokens ==
    [][resp' # resp /\ resp'.kind = "telemetry" /\ resp'.valid
         => LET vin == resp'.list[1]
                events == resp'.statuses
            IN IF vin \notin DOMAIN vins
               THEN resp'.code = 1 /\ events = <<>>
               ELSE IF Int64Of(vins[vin].vtid) = <<0, 0>>
               THEN resp'.code = 0 /\ events = <<>>
               ELSE /\ Len(events) = 1
                    /\ <<0, events[1].producer[2]>> = Int64Of(vins[vin].stid)
                    /\ events[1].subject # <<>>
                    /\ <<0, events[1].subject[2]>> = Int64Of(vins[vin].vtid)]_vars

\* C21: the outcome of forwarding an event follows the answer of the ingest
\* endpoint: 200 gives no error and counts a success; 400 gives no error and
\* counts no success; 401, 403, 404 and every 5xx give an error and count no
\* success.
ForwardOutcomeFollowsIngest ==
    [][resp' # resp /\ resp'.kind = "telemetry" /\ resp'.ingest # 0
         => /\ resp'.ingest = 200 => resp'.code = 0 /\ resp'.success = 1
            /\ resp'.ingest = 400 => resp'.code = 0 /\ resp'.success = 0
            /\ resp'.ingest \in {401, 403, 404} \/ resp'.ingest >= 500
                 => resp'.code = 1 /\ resp'.success = 0]_vars

\* an event answered 400 by the ingest endpoint was dropped without an error
BadRequestDropped ==
    /\ resp.kind = "telemetry" /\ resp.ingest = 400
    /\ resp.code = 0 /\ resp.success = 0 /\ Len(resp.statuses) = 1

\* C22: a telemetry message whose handling returned an error is not
\* acknowledged: the marked offset of the partition never passes its offset.
FailedMessageNotAcknowledged ==
    \A offset \in consumer.failed : consumer.marked <= offset

\* C23: the update of an enroll message sets connection_status to the
\* message's status and external_id to the vendor's vehicle id when the status
\* is succeeded and to the message id otherwise, and clears
\* disconnection_status only when succeeded (it is otherwise as it was); the
\* update of an unenroll message sets disconnection_status and clears
\* connection_status and external_id only when succeeded; both clear the
\* operation error when no error is passed, and leave onboarding_status, the
\* token ids, wallet_index and device_definition_id as they were.  A message
\* for a VIN without a row changes no row.
EnrollmentMessageEffect ==
    [][\A operation \in OperationMessages :
         ConsumeOperation(operation)
           => IF opsConsumer.pc = "idle" THEN vins' = vins ELSE
              LET old == vins[operation.VIN]
                  new == vins'[operation.VIN]
                  succeeded == operation.Status = "succeeded"
              IN /\ operation.Action = "enroll"
                      => /\ new.conn = {operation.Status}
                         /\ new.ext = IF succeeded THEN {operation.VehicleID}
                                      ELSE {operation.ID}
                         /\ new.disc = IF succeeded THEN {} ELSE old.disc
                         /\ operation.Status # "failed" => new.operr = {}
                 /\ operation.Action = "unenroll"
                      => /\ new.disc = {operation.Status}
                         /\ new.conn = IF succeeded THEN {} ELSE old.conn
                         /\ new.ext = IF succeeded THEN {} ELSE old.ext
                         /\ new.operr = {}
                 /\ new.status = old.status /\ new.vtid = old.vtid
                 /\ new.stid = old.stid /\ new.widx = old.widx
                 /\ new.ddid = old.ddid
                 /\ DOMAIN vins' = DOMAIN vins]_vars

\* C24: for either seed GetAddress returns the same address for the same index
\* on every call, whatever calls for other indices come between them: the
\* address of the child HardenedKeyStart + index of the master key of the
\* seed; it returns an error for an index from 2^31 on, and no call changes
\* the key of the service.
AddressIsFunctionOfIndex ==
    resp.kind = "GetAddress"
      => /\ \A i, j \in 1..Len(resp.list) :
              resp.list[i] = resp.list[j] => resp.statuses[i] = resp.statuses[j]
         /\ \A i \in 1..Len(resp.list) :
              /\ resp.statuses[i].err <=> resp.list[i][1] >= 32768
              /\ ~resp.statuses[i].err
                   => /\ resp.statuses[i].address.pub.seed = key.seed
                      /\ resp.statuses[i].address.pub.path
                           = << <<resp.list[i][1] + 32768, resp.list[i][2]>> >>
         /\ key.path = <<>>

\* index 1 was asked twice with a call for 2^31 - 1 between the two
AddressAskedAgain ==
    /\ resp.kind = "GetAddress" /\ Len(resp.list) = 3
    /\ resp.list[1] = <<0, 1>> /\ resp.list[2] = <<32767, 65535>>
    /\ resp.list[3] = <<0, 1>>
    /\ ~resp.statuses[3].err /\ resp.statuses[1] = resp.statuses[3]

\* the stage an onboard job is in, by its position
StageOf(pc) == IF pc \in {"connect", "connected"} THEN "Connect" ELSE "Mint"

\* the statuses a stage has set in memory when it returns
ExitStatuses(stage) ==
    IF stage = "Connect"
    THEN {OnboardingStatusConnectFailure, OnboardingStatusConnectSuccess}
    ELSE {OnboardingStatusMintFailure, OnboardingStatusMintSuccess}

\* the positions of an onboard job inside a stage
StagePositions == {"connect", "connected", "mintv", "mintsd", "lock", "tx", "deferv", "defersd"}

\* the step in which the stage of the onboard job in slot s returns
StageReturns(s) ==
    /\ jobs[s].kind = "onboard" /\ jobs[s].pc \in StagePositions
    /\ jobs'[s] # jobs[s]
    /\ \/ jobs'[s].pc \notin StagePositions
       \/ jobs[s].pc = "connected"

\* C25: whenever a worker stage returns (successfully, with an error, or because
\* the job's context is done) the stored onboarding_status of the VIN is the
\* status the stage last set in memory, which is one of the stage's exit statuses
StageStatusStoredOnReturn ==
    [][\A s \in 1..MaxJobs :
          StageReturns(s) =>
              vins'[jobs[s].vin].status \in ExitStatuses(StageOf(jobs[s].pc))]_vars

\* the step is one of the job in slot s, whose VIN has a row
JobSteps(s) ==
    /\ jobs[s].kind # "none"
    /\ jobs'[s] # jobs[s]
    /\ jobs[s].vin \in DOMAIN vins

\* C26: during the execution of a job the onboarding_status stored for its VIN
\* never goes down: no step of the job stores a lower status than the one it
\* found
StatusNeverDecreasesInJob ==
    [][\A s \in 1..MaxJobs :
          JobSteps(s) => vins'[jobs[s].vin].status >= vins[jobs[s].vin].status]_vars

\* the columns of a row that the workers sequence
Sequenced(row) == <<row.status, row.vtid, row.stid, row.widx, row.ddid>>

\* the job in slot s is executing and its VIN has a row
Executing(s) ==
    /\ jobs[s].kind # "none"
    /\ jobs[s].pc \notin {"free", "available"}
    /\ jobs[s].vin \in DOMAIN vins

\* C27: while a job for a VIN is executing, every step that changes the VIN's
\* onboarding_status, token ids, wallet_index or device_definition_id is a step
\* of that job: no POST handler and no other worker writes them
OnlyTheJobWritesItsVin ==
    [][\A s \in 1..MaxJobs :
          Executing(s) /\ Sequenced(vins'[jobs[s].vin]) # Sequenced(vins[jobs[s].vin])
              => jobs'[s] # jobs[s]]_vars

\* the onboard job in slot s went past the status precondition of Work
PastPrecondition(s) ==
    jobs[s].kind = "onboard" /\ jobs[s].pc \notin {"free", "available"}

\* C28: the onboard worker connects or mints only for a VIN that a verify job
\* brought to VendorValidationSuccess(23).  Where no verify job ever ran (the
\* VINs are first seen in a POST mint) every onboard job stops at the
\* precondition: none reaches the Connect stage and nothing is minted
UnverifiedVinStopsAtPrecondition ==
    /\ \A s \in 1..MaxJobs : ~PastPrecondition(s)
    /\ chain.nveh = 0 /\ chain.nsd = 0

\* C29: between two successful vehicle mints for a VIN there is a successful
\* vehicle burn, and between two successful SD mints a successful SD burn: with
\* one VIN, the registry never holds two live vehicles or two live SDs
MintsSeparatedByBurns ==
    /\ Cardinality(chain.veh) <= 1
    /\ Cardinality(chain.sd) <= 1

\* the status the capability rule gives a vendor answer
CapabilityRule(enabled, answer) ==
    IF enabled /\ answer \in {"notCapable", "noDataFound"}
    THEN OnboardingStatusVendorValidationFailure
    ELSE OnboardingStatusVendorValidationSuccess

\* C30: for a verify job at the vendor validation stage, each status the
\* vendor's Validate may return ends the stage as the rule says: "notCapable"
\* and "noDataFound" at VendorValidationFailure(22), any other status at
\* VendorValidationSuccess(23), and 23 whatever the vendor would say when the
\* capability check is disabled
VendorAnswerDecidesStatus ==
    \A s \in 1..MaxJobs :
        jobs[s].kind = "verify" /\ jobs[s].pc = "validate" =>
            \A answer \in CapabilityStatuses :
                ValidationStatus(settings.EnableVendorCapabilityCheck, answer)
                    = CapabilityRule(settings.EnableVendorCapabilityCheck, answer)

\* the verify job in slot s is picked up and the row of its VIN is verified
PickedUpVerified(s) ==
    /\ jobs[s].kind = "verify" /\ jobs[s].pc = "available"
    /\ jobs'[s] # jobs[s]
    /\ jobs[s].vin \in DOMAIN vins
    /\ IsVerified(vins[jobs[s].vin].status)

\* C31: a verify job picked up for a VIN whose row is verified (status >= 23)
\* returns at once and leaves the row as it is
VerifiedVinSkipped ==
    [][\A s \in 1..MaxJobs :
          PickedUpVerified(s) => jobs'[s] = NoJob /\ vins' = vins]_vars

\* the onboard job in slot s is picked up and the row of its VIN is at
\* MintSuccess with a connection that did not fail
PickedUpMinted(s) ==
    /\ jobs[s].kind = "onboard" /\ jobs[s].pc = "available"
    /\ jobs'[s] # jobs[s]
    /\ jobs[s].vin \in DOMAIN vins
    /\ vins[jobs[s].vin].status = OnboardingStatusMintSuccess
    /\ StringOf(vins[jobs[s].vin].conn) # "failed"

\* C32: an onboard job picked up for a row at MintSuccess(53) whose
\* connection_status is not "failed" returns: the row, the wallet index
\* sequence and the registry are as before, and the job is done
CompletedOnboardReplayIsNoOp ==
    [][\A s \in 1..MaxJobs :
          PickedUpMinted(s) =>
              /\ jobs'[s] = NoJob
              /\ UNCHANGED <<vins, seq, allocated, chain, m>>]_vars

\* an onboard job is queued for a VIN that another job minted: the row is at 53
\* with its tokens and a succeeded connection
OnboardQueuedForMinted ==
    \E s \in 1..MaxJobs :
        /\ jobs[s].kind = "onboard" /\ jobs[s].pc = "available"
        /\ jobs[s].vin \in DOMAIN vins
        /\ vins[jobs[s].vin].status = OnboardingStatusMintSuccess
        /\ vins[jobs[s].vin].conn = {"succeeded"}
        /\ Valid(vins[jobs[s].vin].vtid) /\ Valid(vins[jobs[s].vin].stid)

\* the tokens and the wallet index of the row of a VIN
TokensOf(tbl, vin) == <<tbl[vin].vtid, tbl[vin].stid, tbl[vin].widx>>

\* the onboard job in slot s was picked up for a row at MintSuccess whose
\* connection failed, and is at its Connect stage
Reconnecting(s) ==
    /\ jobs[s].kind = "onboard" /\ jobs[s].pc = "connect"
    /\ jobs[s].rec.status = OnboardingStatusMintSuccess
    /\ jobs[s].rec.conn = {"failed"}

\* the onboard job in slot s, picked up for a row at MintSuccess, made the
\* first write of its Connect stage: the row keeps its status until the
\* deferred update of the stage
Reconnected(s) ==
    /\ jobs[s].kind = "onboard" /\ jobs[s].pc = "connected" /\ ~jobs[s].err
    /\ jobs[s].vin \in DOMAIN vins
    /\ vins[jobs[s].vin].status = OnboardingStatusMintSuccess

\* C33: an onboard job picked up for a row at 53 with connection_status
\* "failed" runs the Connect stage only.  Its Connect stage leaves the tokens,
\* the wallet index sequence and the registry alone, stores connection_status
\* "succeeded" and no disconnection_status, then ConnectSuccess(43), and moves
\* to Work's last branch; that branch stores MintSuccess(53), changes nothing
\* else and ends the job
ReconnectRunsConnectOnly ==
    [][\A s \in 1..MaxJobs :
          /\ Reconnecting(s) /\ jobs'[s] # jobs[s] =>
                /\ UNCHANGED <<seq, allocated, chain, m>>
                /\ TokensOf(vins', jobs[s].vin) = TokensOf(vins, jobs[s].vin)
                /\ vins'[jobs[s].vin].conn = {"succeeded"}
                /\ vins'[jobs[s].vin].disc = {}
                /\ jobs'[s].pc = "connected" /\ jobs'[s].idx = {}
          /\ Reconnected(s) /\ jobs'[s] # jobs[s] =>
                /\ UNCHANGED <<seq, allocated, chain, m>>
                /\ vins' = [vins EXCEPT ![jobs[s].vin].status =
                                          OnboardingStatusConnectSuccess]
                /\ jobs'[s].pc = "minted" /\ jobs'[s].idx = {}
          /\ jobs[s].kind = "onboard" /\ jobs[s].pc = "minted" /\ jobs[s].idx = {}
                /\ jobs'[s] # jobs[s] =>
                /\ UNCHANGED <<seq, allocated, chain, m>>
                /\ vins' = [vins EXCEPT ![jobs[s].vin].status = OnboardingStatusMintSuccess]
                /\ jobs'[s] = NoJob]_vars

\* the step in which the mint stage of the onboard job in slot s returns: a
\* failure of its preparation, or its deferred update
MintReturns(s) ==
    /\ jobs[s].kind = "onboard"
    /\ jobs[s].pc \in {"mintv", "mintsd", "deferv", "defersd"}
    /\ jobs'[s] # jobs[s]
    /\ jobs'[s].pc # "lock"

\* C34: when a mint stage returns after one of its steps failed, the row is at
\* MintFailure(52) with the tokens and the wallet index it had; when it
\* returns after its transaction succeeded, the row is at MintSuccess(53) with
\* the minted tokens and the wallet index allocated in this run, and an
\* SD-only mint keeps the vehicle token
MintStageOutcome ==
    [][\A s \in 1..MaxJobs :
          LET vin == jobs[s].vin
          IN MintReturns(s) =>
               IF jobs[s].pc \in {"mintv", "mintsd"} \/ jobs[s].err
               THEN /\ vins'[vin].status = OnboardingStatusMintFailure
                    /\ TokensOf(vins', vin) = TokensOf(vins, vin)
               ELSE /\ vins'[vin].status = OnboardingStatusMintSuccess
                    /\ vins'[vin].widx = jobs[s].idx
                    /\ jobs[s].idx = {allocated[Len(allocated)]}
                    /\ vins'[vin].stid = jobs[s].rec.stid
                    /\ IF jobs[s].pc = "defersd"
                       THEN vins'[vin].vtid = vins[vin].vtid
                       ELSE vins'[vin].vtid = jobs[s].rec.vtid]_vars

\* the step in which the burn stage of the job in slot s ends
BurnEnds(s, kind) ==
    /\ jobs[s].kind = kind /\ jobs[s].pc \in {"tx", "unlock", "defer"}
    /\ jobs'[s].pc \notin {"tx", "unlock", "defer"}

\* the burn of the stage that ends in this step succeeded
Burned(s) == IF jobs[s].pc = "defer" THEN ~jobs[s].err ELSE chain' # chain

\* C35: when the burn-SD stage of a disconnect job ends, the row is at
\* BurnSDSuccess(83) without synthetic_token_id and wallet_index if the burn
\* succeeded, and at BurnSDFailure(82) with both unchanged if sending the
\* operation or obtaining its result failed
BurnSDStageOutcome ==
    [][\A s \in 1..MaxJobs :
          BurnEnds(s, "disconnect") =>
            LET vin == jobs[s].vin
            IN IF Burned(s)
               THEN /\ vins'[vin].status = OnboardingStatusBurnSDSuccess
                    /\ vins'[vin].stid = {} /\ vins'[vin].widx = {}
               ELSE /\ vins'[vin].status = OnboardingStatusBurnSDFailure
                    /\ TokensOf(vins', vin) = TokensOf(vins, vin)]_vars

\* C36: when the burn-vehicle stage of a delete job ends, the row is at
\* BurnVehicleSuccess(103) without vehicle_token_id if the burn succeeded, and
\* at BurnVehicleFailure(102) with vehicle_token_id unchanged if sending the
\* operation or obtaining its result failed
BurnVehicleStageOutcome ==
    [][\A s \in 1..MaxJobs :
          BurnEnds(s, "delete") =>
            LET vin == jobs[s].vin
            IN IF Burned(s)
               THEN /\ vins'[vin].status = OnboardingStatusBurnVehicleSuccess
                    /\ vins'[vin].vtid = {}
               ELSE /\ vins'[vin].status = OnboardingStatusBurnVehicleFailure
                    /\ vins'[vin].vtid = vins[vin].vtid]_vars

\* C38: a job that submitted its transaction holds the mutex of its worker and
\* releases it exactly once: the step after the transaction call unlocks the
\* held mutex, and the job is not left at a second w.m.Unlock()
MutexReleasedOnce ==
    [][\A s \in 1..MaxJobs :
          jobs[s].pc = "tx" /\ jobs'[s] # jobs[s] =>
              /\ m[jobs[s].kind] /\ ~m'[jobs[s].kind]
              /\ jobs'[s].pc # "unlock"]_vars

\* the statuses a VIN rests at between jobs: nothing submitted, a failure, or
\* the success of a whole job
RestingStatuses ==
    {OnboardingStatusSubmitUnknown, OnboardingStatusVendorValidationSuccess,
     OnboardingStatusMintSuccess, OnboardingStatusBurnSDSuccess,
     OnboardingStatusBurnVehicleSuccess} \cup {c \in StatusCodes : IsFailure(c)}

\* C37: whenever no job for a VIN is queued or executing, the status stored
\* for the VIN is a resting status
IdleVinAtRest ==
    \A vin \in DOMAIN vins :
        LiveJobs(vin) = {} => vins[vin].status \in RestingStatuses


\* C39: the vendor-operations consumer never blocks forever: whatever number
\* of enrollment messages it has received, the send of the next one on the
\* enrollment channel completes, so that its update and its mark follow.  No
\* goroutine receives from the channel, so a send that cannot complete now
\* never completes.
EnrollmentSendCompletes == enrollmentChannel < EnrollmentChannelCapacity


\* C40: every forwarded telemetry event (of a message with a valid envelope)
\* is stamped with the token ids the store holds for its VIN when it is
\* forwarded: once a mint or a burn is persisted, an event for a row with a
\* vehicle_token_id is forwarded with the stored synthetic_token_id as
\* producer and the stored vehicle_token_id as subject, and no event is
\* forwarded for a row whose vehicle_token_id is NULL.
ForwardedWithCurrentTokens ==
    [][consumer'.next # consumer.next /\ resp'.kind = "telemetry" /\ resp'.valid
         => LET vin == resp'.list[1]
                events == resp'.statuses
            IN vin \in DOMAIN vins
                 => IF Int64Of(vins[vin].vtid) = <<0, 0>>
                    THEN events = <<>>
                    ELSE /\ Len(events) = 1
                         /\ <<0, events[1].producer[2]>> = Int64Of(vins[vin].stid)
                         /\ events[1].subject # <<>>
                         /\ <<0, events[1].subject[2]>> = Int64Of(vins[vin].vtid)]_vars

====
